---------------------------- MODULE Spec2Model ----------------------------
(***************************************************************************)
(* A model of the QSP image lock/unlock pipeline: the CRT threshold        *)
(* secret sharing (moduli generation, Arnold scrambling, split and         *)
(* reconstruction) and the ring arithmetic of the lattice signatures.      *)
(*                                                                         *)
(* Each subsystem has its own variables and its own specification; a       *)
(* specification leaves the other subsystems idle.                         *)
(***************************************************************************)
EXTENDS Integers, Sequences, FiniteSets, TLC

VARIABLES
    \* ---- ImageCRTSplitter / ImageCRTReconstructor ----
    sp_state,       \* "none" | "ok" | "ValueError": outcome of ImageCRTSplitter.__init__
    sp_n, sp_t,     \* ImageCRTSplitter.n, .t
    sp_moduli,      \* ImageCRTSplitter.moduli (sorted by __init__)
    image,          \* the secret image: [h, w, px] with px the row-major pixels
    shares,         \* the share packets produced by split / split_image
    rec_in,         \* the share list handed to reconstruct / the paths handed to reconstruct_image
    rec_out,        \* what the reconstruction returned or raised
    \* ---- generate_secure_moduli ----
    gen_pc,         \* "idle" | "loop" | "done"
    gen_n, gen_t,   \* the arguments n, t
    current_start,  \* the search floor
    gen_moduli,     \* the batch of the last round / the returned list
    gen_rounds,     \* completed rounds of the outer while-loop
    \* ---- ArnoldScrambler ----
    ar_pc,          \* "idle" | "init" | "scrambled" | "unscrambled"
    ar_a, ar_b, ar_iterations,   \* ArnoldScrambler.a, .b, .iterations
    ar_img,         \* the input image [h, w, px]
    ar_scr,         \* scramble()'s result: [img, shape]
    ar_out,         \* unscramble()'s result
    \* ---- ring arithmetic (ntt.py) ----
    rq_pc,          \* "idle" | "init" | "schoolbook" | "swapped" | "done"
    rq_a, rq_b,     \* the operand polynomials: N coefficients, lowest degree first
    rq_res,         \* polymul_rq(rq_a, rq_b)
    rq_swap,        \* polymul_rq(rq_b, rq_a)
    rq_ntt,         \* inv_ntt(poly_mul(ntt(rq_a), ntt(rq_b)))
    \* ---- LatticeUtils.center_mod / decompose ----
    dc_pc,          \* "idle" | "init" | "centered" | "decomposed"
    dc_r,           \* the argument r (x for center_mod)
    dc_q,           \* the argument q
    dc_out,         \* the returned value: r for center_mod, <<r1, r0>> for decompose
    \* ---- numpy's global generator and the matrix expansion ----
    np_state,       \* np.random's global state: [seed, pos], pos the draws since seeding
    ex_pc,          \* "idle" | "init" | "first" | "second" | "keys"
    ex_kind,        \* the function under test: "expand_a" | "gen_matrix" | "setup_system" | ...
    ex_seed,        \* the seed (a byte sequence): the argument of the expansions, the
                    \* value secrets.token_bytes / token_hex returns in key generation
    ex_first,       \* the matrix the first call returned
    ex_second,      \* the matrix the second call returned
    ex_between,     \* uses of the generator between the two calls
    ky_out,         \* what key generation returned
    \* ---- derive_challenge ----
    ch_pc,          \* "idle" | "init" | "derived"
    ch_digest,      \* the bytes of shake_256(input_data).digest(N // 2)
    ch_c,           \* the challenge polynomial returned
    \* ---- a threshold signing session ----
    th_pc,          \* "idle" | "init" | "keys" | "committed" | "responded" |
                    \* "aggregated" | "verified"
    th_plan,        \* the session tried: [rho, n, order], the value of
                    \* secrets.token_bytes(32) in setup_system, the number of parties
                    \* and the orders allowed for creating and committing the signers
    th_system,      \* what setup_system returned: [group_pk, party_keys]
    th_signers,     \* the ThresholdSigner objects, in the order of their creation
    th_ts,          \* the session timestamp handed to phase1_commitment
    th_msg,         \* the message bytes handed to phase2_response
    th_W,           \* W_sum = aggregate_w_shares(the commitments)
    th_resp,        \* what phase2_response returned to each signer so far
    th_Z,           \* [z_shares, Z]: the list given to aggregate_responses, its result
    th_c,           \* the aggregator's derive_challenge(message, HighBits(W_sum), timestamp)
    th_ver,         \* the last verify_final_signature call: its arguments and result
    \* ---- LatticeSigner with a KeyTool key pair ----
    ls_pc,          \* "idle" | "init" | "keys" | "signed" | "verified"
    ls_seed,        \* the bytes of secrets.token_hex(32) in generate_keypair
    ls_keys,        \* what generate_keypair returned: [pk, sk]
    ls_msg,         \* the message signed
    ls_sig,         \* the signature sign returned: [z, w, c_hash]
    ls_ver,         \* the last verify call: its arguments, its result, its max_error
    \* ---- DCTEmbedder and the extractor ----
    em_pc,          \* "idle" | "init" | "probed" | "embedded" | "extracted"
    em_carrier,     \* the array carrier_image handed to embed: [h, w, c, px]
    em_payload,     \* payload_bytes, the bytes ShareSerializer.serialize returned
    em_ulp,         \* the rounding of the float32 inverse transform (0: exact, 1: a hair below)
    em_probe,       \* a call of _embed_bit_in_block on its own: [coeff, bit, out]
    em_stego,       \* what embed returned or raised
    em_out,         \* what extract returned
    \* ---- the unlock flow (unlock_asset.main) ----
    ul_pc,          \* "idle" | "scan" | "done"
    ul_plan,        \* the case tried: the threshold, the stego files, the key directory
    ul_ids,         \* the key pairs generate_identity wrote, by owner
    ul_manifest,    \* asset_manifest.json: [threshold, registry]
    ul_done,        \* the names of stego_files the loop has been through
    ul_valid,       \* valid_shares_payloads
    ul_from,        \* the file each entry of valid_shares_payloads came from
    ul_log,         \* what the loop found for each file it has been through
    ul_result,      \* how main ended: [kind] and the image it wrote
    \* ---- a party's signer over the attempts of a caller's retry loop ----
    rt_attempt,     \* the attempt of the retry loop that is running (0: idle)
    rt_log,         \* every phase2_response call: [attempt, index, y, msg, W, out]
    \* ---- the lock flow (AssetLocker.lock_and_distribute) ----
    lk_pc,          \* "idle" | "init" | "params" | "split" | "loop" | the exception raised
    lk_plan,        \* the call: the secret image, n, t, the .pk files and covers found
    lk_moduli,      \* moduli = generate_secure_moduli(n, t)
    lk_shares,      \* shares = splitter.split(img_arr)
    lk_anchor,      \* per loop pass begun: [share, share_bytes, share_hash, stego]
    \* ---- a process that signs more than once (the loop of unlock_asset.main) ----
    sq_seen         \* the c_hash of every earlier signature of the process

crtVars  == <<sp_state, sp_n, sp_t, sp_moduli, image, shares, rec_in, rec_out>>
genVars  == <<gen_pc, gen_n, gen_t, current_start, gen_moduli, gen_rounds>>
arVars   == <<ar_pc, ar_a, ar_b, ar_iterations, ar_img, ar_scr, ar_out>>
rqVars   == <<rq_pc, rq_a, rq_b, rq_res, rq_swap, rq_ntt>>
dcVars   == <<dc_pc, dc_r, dc_q, dc_out>>
classicVars == <<crtVars, genVars, arVars, rqVars>>
npVars   == <<np_state>>
exVars   == <<ex_pc, ex_kind, ex_seed, ex_first, ex_second, ex_between, ky_out>>
chVars   == <<ch_pc, ch_digest, ch_c>>
thVars   == <<th_pc, th_plan, th_system, th_signers, th_ts, th_msg, th_W, th_resp, th_Z, th_c,
             th_ver>>
lsVars   == <<ls_pc, ls_seed, ls_keys, ls_msg, ls_sig, ls_ver>>
emVars   == <<em_pc, em_carrier, em_payload, em_ulp, em_probe, em_stego, em_out>>
ulVars   == <<ul_pc, ul_plan, ul_ids, ul_manifest, ul_done, ul_valid, ul_from, ul_log,
             ul_result>>
rtVars   == <<rt_attempt, rt_log>>
lkVars   == <<lk_pc, lk_plan, lk_moduli, lk_shares, lk_anchor>>
sqVars   == <<sq_seen>>
flowVars == <<emVars, ulVars, rtVars, lkVars, sqVars>>
latVars  == <<dcVars, npVars, exVars, chVars, thVars, lsVars, flowVars>>
\* what each lattice specification leaves alone
notDecompose == <<classicVars, npVars, exVars, chVars, thVars, lsVars, flowVars>>
notKeys      == <<classicVars, dcVars, chVars, thVars, lsVars, flowVars>>
notChallenge == <<classicVars, dcVars, npVars, exVars, thVars, lsVars, flowVars>>
notThreshold == <<classicVars, dcVars, exVars, chVars, lsVars, flowVars>>
notSigner    == <<classicVars, dcVars, exVars, chVars, thVars, flowVars>>
\* the lattice subsystems together, for the specifications of the image pipeline
latOnly      == <<dcVars, npVars, exVars, chVars, thVars, lsVars>>
notEmbed     == <<classicVars, latOnly, ulVars, rtVars, lkVars, sqVars>>
notUnlock    == <<classicVars, dcVars, exVars, chVars, thVars, lsVars, emVars, rtVars, lkVars,
                 sqVars>>
notParty     == <<classicVars, dcVars, exVars, chVars, lsVars, emVars, ulVars, lkVars, sqVars>>
notLock      == <<classicVars, latOnly, emVars, ulVars, rtVars, sqVars>>
notSignLoop  == <<classicVars, dcVars, exVars, chVars, thVars, emVars, ulVars, rtVars, lkVars>>
vars     == <<crtVars, genVars, arVars, rqVars, latVars>>

-----------------------------------------------------------------------------
(***************************************************************************)
(* Python's arbitrary-precision integers.  TLC's integers are 32 bits      *)
(* wide, so a natural number that may exceed that is a little-endian       *)
(* sequence of base-BigBase digits without leading zeros (0 is << >>).     *)
(* Every operation is exact, as Python's is.                               *)
(***************************************************************************)
BigBase == 10^4

RECURSIVE BigOfInt(_)
BigOfInt(k) == IF k = 0 THEN << >> ELSE <<k % BigBase>> \o BigOfInt(k \div BigBase)

RECURSIVE BigNorm(_)
BigNorm(d) ==
    IF d = << >> THEN << >>
    ELSE IF d[Len(d)] = 0 THEN BigNorm(SubSeq(d, 1, Len(d) - 1)) ELSE d

RECURSIVE BigToIntFrom(_, _)
BigToIntFrom(d, i) == IF i > Len(d) THEN 0 ELSE d[i] + BigBase * BigToIntFrom(d, i + 1)
BigToInt(d) == BigToIntFrom(d, 1)

RECURSIVE BigMulCarry(_, _, _, _)
BigMulCarry(d, k, i, c) ==
    IF i > Len(d) THEN BigOfInt(c)
    ELSE LET p == d[i] * k + c
         IN  <<p % BigBase>> \o BigMulCarry(d, k, i + 1, p \div BigBase)
\* d * k for a small k (k * BigBase fits a TLC integer)
BigMulDigit(d, k) == IF k = 0 \/ d = << >> THEN << >> ELSE BigMulCarry(d, k, 1, 0)

RECURSIVE BigAddCarry(_, _, _, _)
BigAddCarry(x, y, i, c) ==
    IF i > Len(x) /\ i > Len(y) THEN BigOfInt(c)
    ELSE LET s == (IF i <= Len(x) THEN x[i] ELSE 0) + (IF i <= Len(y) THEN y[i] ELSE 0) + c
         IN  <<s % BigBase>> \o BigAddCarry(x, y, i + 1, s \div BigBase)
BigAdd(x, y) == BigAddCarry(x, y, 1, 0)

\* d * k for any TLC integer k >= 0, by the base-BigBase digits of k
RECURSIVE BigMulSmall(_, _)
BigMulSmall(d, k) ==
    IF k < 20 * BigBase THEN BigMulDigit(d, k)
    ELSE LET high == BigMulSmall(d, k \div BigBase)
         IN  BigAdd(BigMulDigit(d, k % BigBase),
                    IF high = << >> THEN << >> ELSE <<0>> \o high)

RECURSIVE BigLeqFrom(_, _, _)
BigLeqFrom(x, y, i) ==
    IF i = 0 THEN TRUE
    ELSE IF x[i] /= y[i] THEN x[i] < y[i] ELSE BigLeqFrom(x, y, i - 1)
BigLeq(x, y) ==
    IF Len(x) /= Len(y) THEN Len(x) < Len(y) ELSE BigLeqFrom(x, y, Len(x))
BigLess(x, y) == ~BigLeq(y, x)

RECURSIVE BigSubBorrow(_, _, _, _)
BigSubBorrow(x, y, i, b) ==
    IF i > Len(x) THEN << >>
    ELSE LET s == x[i] - (IF i <= Len(y) THEN y[i] ELSE 0) - b
         IN  <<IF s < 0 THEN s + BigBase ELSE s>>
             \o BigSubBorrow(x, y, i + 1, IF s < 0 THEN 1 ELSE 0)
\* x - y for y <= x
BigSub(x, y) == BigNorm(BigSubBorrow(x, y, 1, 0))

\* long division of d by a small k, from the most significant digit down
RECURSIVE BigDivStep(_, _, _, _)
BigDivStep(d, k, i, r) ==
    IF i = 0 THEN [q |-> << >>, r |-> r]
    ELSE LET cur  == r * BigBase + d[i]
             rest == BigDivStep(d, k, i - 1, cur % k)
         IN  [q |-> rest.q \o <<cur \div k>>, r |-> rest.r]

\* the largest q in lo..hi with q * m <= r
RECURSIVE BigQuotDigit(_, _, _, _)
BigQuotDigit(r, m, lo, hi) ==
    IF lo = hi THEN lo
    ELSE LET mid == (lo + hi + 1) \div 2
         IN  IF BigLeq(BigMulDigit(m, mid), r)
             THEN BigQuotDigit(r, m, mid, hi)
             ELSE BigQuotDigit(r, m, lo, mid - 1)

\* the base-BigBase quotient digit of r by m (r < m * BigBase), found in two
\* halves of two decimal digits each
BigQuot(r, m) ==
    LET m100 == BigMulDigit(m, 100)
        qh   == BigQuotDigit(r, m100, 0, 99)
        rest == BigSub(r, BigMulDigit(m100, qh))
        ql   == BigQuotDigit(rest, m, 0, 99)
    IN  100 * qh + ql

\* d mod m for m > 0, by long division
RECURSIVE BigModStep(_, _, _, _)
BigModStep(d, m, i, r) ==
    IF i = 0 THEN r
    ELSE LET cur == BigNorm(<<d[i]>> \o r)
             q   == BigQuot(cur, m)
             rem == BigSub(cur, BigMulDigit(m, q))
         IN  IF Len(rem) >= 0 THEN BigModStep(d, m, i - 1, rem) ELSE << >>
BigMod(d, m) == BigModStep(d, m, Len(d), << >>)

\* long division of d by m keeping the quotient digits
RECURSIVE BigLongDiv(_, _, _, _)
BigLongDiv(d, m, i, r) ==
    IF i = 0 THEN [q |-> << >>, r |-> BigToInt(r)]
    ELSE LET cur  == BigNorm(<<d[i]>> \o r)
             qd   == BigQuot(cur, m)
             rest == BigLongDiv(d, m, i - 1, BigSub(cur, BigMulDigit(m, qd)))
         IN  [q |-> rest.q \o <<qd>>, r |-> rest.r]

\* d // k and d % k for any TLC integer k > 0
BigDivMod(d, k) ==
    IF k < 20 * BigBase THEN BigDivStep(d, k, Len(d), 0)
    ELSE BigLongDiv(d, BigOfInt(k), Len(d), << >>)
BigDivSmall(d, k) == BigNorm(BigDivMod(d, k).q)
BigModSmall(d, k) == BigDivMod(d, k).r

RECURSIVE BigProduct(_, _)
BigProduct(s, i) == IF i > Len(s) THEN <<1>> ELSE BigMulSmall(BigProduct(s, i + 1), s[i])


-----------------------------------------------------------------------------
(***************************************************************************)
(* Shared helpers.                                                         *)
(***************************************************************************)
\* a sequence given by a function constructor, evaluated to its elements (TLC
\* keeps a constructor unevaluated until an element is read)
Eval(f) == f \o << >>

\* numpy's astype(np.uint16) / astype(np.uint8) of a non-negative integer
Uint16(x) == x % 65536
Uint8(x)  == x % 256

RECURSIVE Gcd(_, _)
Gcd(x, y) == IF y = 0 THEN x ELSE Gcd(y, x % y)

Max(x, y) == IF x >= y THEN x ELSE y

\* s[lo..hi] as Python slices it: an empty list when the range is empty
Slice(s, lo, hi) == IF lo > hi THEN << >> ELSE SubSeq(s, lo, hi)

Range(s) == {s[i] : i \in 1..Len(s)}

\* the sequences of length k over the set S without a repeated element
InjSeqs(S, k) == {q \in [1..k -> S] : \A i, j \in 1..k : i /= j => q[i] /= q[j]}

-----------------------------------------------------------------------------
(***************************************************************************)
(* ArnoldScrambler (scrambler.py).  An image is [h, w, px], px its cells   *)
(* in row-major order; a cell stands for the channel vector of one (y, x)  *)
(* position, which the map moves as a whole.                               *)
(***************************************************************************)
\* forward map of one cell (yy, xx) of the n x n grid: the flat index it is copied to
ArnoldTarget(yy, xx, n, a, b) ==
    LET xx_new == (xx + b * yy) % n
        yy_new == (a * xx + (a * b + 1) * yy) % n
    IN  yy_new * n + xx_new

ArnoldSourceBad(yy, xx, n, a, b) ==
    LET xx_old == ((a * b + 1) * xx - b * yy) % n
        yy_old == (a * xx + yy) % n
    IN  yy_old * n + xx_old

\* inverse map of one cell (yy, xx): the flat index it is copied to by unscramble
ArnoldSource(yy, xx, n, a, b) ==
    LET xx_old == ((a * b + 1) * xx - b * yy) % n
        yy_old == ((-a) * xx + yy) % n
    IN  yy_old * n + xx_old

\* img_next[T(yy, xx)] = img_curr[yy, xx] over np.indices((n, n)); img_next starts
\* as zeros, and a cell written twice keeps the last write
ScatterFwd(px, n, a, b) ==
    [p \in 1..(n * n) |->
        LET srcs == {q \in 0..(n * n - 1) : ArnoldTarget(q \div n, q % n, n, a, b) = p - 1}
        IN  IF srcs = {} THEN 0
            ELSE px[(CHOOSE q \in srcs : \A r \in srcs : r <= q) + 1]]

ScatterInv(px, n, a, b) ==
    [p \in 1..(n * n) |->
        LET srcs == {q \in 0..(n * n - 1) : ArnoldSource(q \div n, q % n, n, a, b) = p - 1}
        IN  IF srcs = {} THEN 0
            ELSE px[(CHOOSE q \in srcs : \A r \in srcs : r <= q) + 1]]

RECURSIVE IterateFwd(_, _, _, _, _)
IterateFwd(px, n, a, b, k) ==
    IF k <= 0 THEN px ELSE IterateFwd(ScatterFwd(px, n, a, b), n, a, b, k - 1)

RECURSIVE IterateInv(_, _, _, _, _)
IterateInv(px, n, a, b, k) ==
    IF k <= 0 THEN px ELSE IterateInv(ScatterInv(px, n, a, b), n, a, b, k - 1)

\* padded_img = zeros((n, n)); padded_img[:h, :w] = image_array
PadSquare(img, n) ==
    [p \in 1..(n * n) |->
        LET yy == (p - 1) \div n
            xx == (p - 1) % n
        IN  IF yy < img.h /\ xx < img.w THEN img.px[yy * img.w + xx + 1] ELSE 0]

\* arr[:h, :w] of an n x n grid
Crop(px, n, h, w) ==
    LET hh == IF h < n THEN h ELSE n
        ww == IF w < n THEN w ELSE n
    IN  [h |-> hh, w |-> ww,
         px |-> [p \in 1..(hh * ww) |-> px[((p - 1) \div ww) * n + ((p - 1) % ww) + 1]]]

\* ArnoldScrambler.scramble: (scrambled n x n image, original (h, w))
scramble(img, a, b, iterations) ==
    LET n == Max(img.h, img.w)
    IN  [img   |-> [h |-> n, w |-> n, px |-> IterateFwd(PadSquare(img, n), n, a, b, iterations)],
         shape |-> <<img.h, img.w>>]

\* ArnoldScrambler.unscramble with original_shape given
unscramble(img, a, b, iterations, original_shape) ==
    LET n == img.h
    IN  Crop(IterateInv(img.px, n, a, b, iterations), n, original_shape[1], original_shape[2])

-----------------------------------------------------------------------------
(***************************************************************************)
(* Config (config.py): the CRT parameters.                                 *)
(***************************************************************************)
MODULI        == <<257, 263, 269, 271, 277>>
T_THRESHOLD   == 3
N_PARTICIPANTS == 5
LARGE_PRIME_Q == 257
\* the largest pixel value (q_pixel of moduli_gen.py, the bound of _validate_moduli)
PIXEL_MAX     == 255
\* ArnoldScrambler(iterations=10) of the splitter and the reconstructor, a = b = 1
SCRAMBLER_ITERATIONS == 10

-----------------------------------------------------------------------------
(***************************************************************************)
(* ImageCRTSplitter (splitter.py).                                         *)
(***************************************************************************)
\* _validate_moduli on the sorted list: TRUE when no ValueError is raised
_validate_moduli(n, moduli) ==
    /\ Len(moduli) = n
    /\ \A i, j \in 1..Len(moduli) : i < j => Gcd(moduli[i], moduli[j]) = 1
    /\ \A i \in 1..Len(moduli) : ~(moduli[i] <= PIXEL_MAX)

\* shadow = (flat_pixels % m).astype(np.uint16)
Shadow(v, m) == Uint16(v % m)

\* split(image_array): one SharePayload per modulus, in the order of self.moduli
split(img, moduli) ==
    [i \in 1..Len(moduli) |->
        [index   |-> i - 1,
         modulus |-> moduli[i],
         data    |-> [k \in 1..Len(img.px) |-> Shadow(img.px[k], moduli[i])],
         shape   |-> <<img.h, img.w>>]]

(***************************************************************************)
(* ImageCRTReconstructor (reconstructor.py).                               *)
(***************************************************************************)
\* _egcd(a, b): <<g, x, y>> with a*x + b*y = g
RECURSIVE _egcd(_, _)
_egcd(a, b) ==
    IF a = 0 THEN <<b, 0, 1>>
    ELSE LET r == _egcd(b % a, a)
         IN  <<r[1], r[3] - (b \div a) * r[2], r[2]>>

\* _modinv(a, m) for an arbitrary-precision a: [ok, inv].  The first two levels of
\* _egcd(a, m) reduce a to a mod m, and the x they return differs from the x of
\* _egcd(a mod m, m) by a multiple of m, which the final x % m removes.
_modinv(a, m) ==
    LET r == _egcd(BigModSmall(a, m), m)
    IN  [ok |-> r[1] = 1, inv |-> r[2] % m]

\* M = reduce(lambda x, y: x * y, moduli)
BigProd(moduli) == BigProduct(moduli, 1)

\* a weight that leaves out the modular inverse
WeightNoInverse(M, mi) == BigDivSmall(M, mi)

\* the CRT weight Mi * yi of one share, Mi = M // mi, yi = _modinv(Mi, mi)
Weight(M, mi) ==
    LET Mi == BigDivSmall(M, mi)
    IN  BigMulSmall(Mi, _modinv(Mi, mi).inv)

\* sum over the shares of residue * weight, for pixel position k
RECURSIVE CrtSum(_, _, _, _)
CrtSum(datas, weights, k, i) ==
    IF i > Len(datas) THEN << >>
    ELSE BigAdd(BigMulSmall(weights[i], datas[i][k]), CrtSum(datas, weights, k, i + 1))

\* 2^63 and 2^64, the range of numpy's int64
Int64Half == <<5808, 5477, 368, 3372, 922>>
Int64Span == <<1616, 955, 737, 6744, 1844>>

\* (x wrapped to a signed 64-bit integer) % M as numpy computes it: the sign of
\* the result is the sign of M.  Wrapping every product and partial sum gives
\* the same value as wrapping the exact sum once.
Int64Mod(x, M) ==
    LET r == BigMod(x, Int64Span)
    IN  IF BigLess(r, Int64Half) THEN BigMod(r, M)
        ELSE LET nm == BigMod(BigSub(Int64Span, r), M)
             IN  IF nm = << >> THEN << >> ELSE BigSub(M, nm)

\* reconstruct(valid_shares): None for an empty list, otherwise the uint8 pixels of
\* (sum of data * Mi * yi) % M, reshaped to the first share's shape.  A share list
\* whose moduli are not coprime makes _modinv raise.
reconstruct(valid_shares) ==
    IF valid_shares = << >> THEN [kind |-> "None"]
    ELSE LET moduli  == [i \in 1..Len(valid_shares) |-> valid_shares[i].modulus]
             M       == BigProd(moduli)
             shape   == valid_shares[1].shape
             count   == shape[1] * shape[2]
             datas   == [i \in 1..Len(valid_shares) |-> valid_shares[i].data]
             weights == Eval([i \in 1..Len(moduli) |-> Weight(M, moduli[i])])
             acc     == Eval([k \in 1..count |-> BigMod(CrtSum(datas, weights, k, 1), M)])
         IN  IF \E i \in 1..Len(moduli) : ~_modinv(BigDivSmall(M, moduli[i]), moduli[i]).ok
             THEN [kind |-> "Exception"]
             ELSE [kind |-> "image",
                   used |-> Len(valid_shares),
                   Y    |-> acc,
                   img  |-> [h |-> shape[1], w |-> shape[2],
                             px |-> [k \in 1..count |-> BigModSmall(acc[k], 256)]]]

\* batch_crt_solve(shares, moduli, m0): the uint8 array S, with the Y it is taken
\* from; sum_val is an object array, so every product and sum is exact
batch_crt_solve(share_datas, moduli, m0) ==
    LET M_prime == BigProd(moduli)
        weights == Eval([i \in 1..Len(moduli) |-> Weight(M_prime, moduli[i])])
        Y       == Eval([k \in 1..Len(share_datas[1]) |->
                           BigMod(CrtSum(share_datas, weights, k, 1), M_prime)])
    IN  IF \E i \in 1..Len(moduli) : ~_modinv(BigDivSmall(M_prime, moduli[i]), moduli[i]).ok
        THEN [kind |-> "Exception"]
        ELSE IF share_datas = << >> THEN [kind |-> "IndexError"]
        ELSE [kind |-> "image",
              used |-> Len(moduli),
              Y    |-> Y,
              img  |-> [h |-> 1, w |-> Len(Y),
                        px |-> [k \in 1..Len(Y) |-> Uint8(BigModSmall(Y[k], m0))]]]

\* split_image up to the packets it saves: scramble, split, and the original
\* (h, w) stored with every packet
split_image(img, moduli) ==
    LET scr == scramble(img, 1, 1, SCRAMBLER_ITERATIONS)
        sh  == split(scr.img, moduli)
    IN  [i \in 1..Len(sh) |->
            [index |-> sh[i].index, modulus |-> sh[i].modulus, data |-> sh[i].data,
             shape |-> sh[i].shape, original_shape |-> scr.shape]]

\* the packets np.load returns, in the order of share_paths; a path whose load
\* raises is skipped (continue)
RECURSIVE LoadShares(_, _, _)
LoadShares(packets, share_paths, i) ==
    IF i > Len(share_paths) THEN << >>
    ELSE (IF share_paths[i].ok THEN <<packets[share_paths[i].share]>> ELSE << >>)
         \o LoadShares(packets, share_paths, i + 1)

\* reconstruct_image(share_paths): the image it returns or the exception it raises.
\* The residues are cast to int64 and Y is an int64 array, so v * w and the sum
\* wrap around at 64 bits (every weight of the model is below 2^63 and stays an
\* int64 operand).
reconstruct_image(packets, share_paths) ==
    LET t == T_THRESHOLD
        loaded_shares == LoadShares(packets, share_paths, 1)
    IN  IF Len(share_paths) < t THEN [kind |-> "ValueError"]
        ELSE IF \E i \in 1..Len(loaded_shares) : loaded_shares[i].shape /= loaded_shares[1].shape
        THEN [kind |-> "ValueError"]
        ELSE IF loaded_shares = << >> THEN [kind |-> "TypeError"]
        ELSE LET selected_shares == Slice(loaded_shares, 1, IF Len(loaded_shares) < t
                                                           THEN Len(loaded_shares) ELSE t)
                 active_moduli == [i \in 1..Len(selected_shares) |-> selected_shares[i].modulus]
                 M        == BigProd(active_moduli)
                 weights  == Eval([i \in 1..Len(active_moduli) |-> Weight(M, active_moduli[i])])
                 ys       == [i \in 1..Len(selected_shares) |-> selected_shares[i].data]
                 shape    == loaded_shares[1].shape
                 Y        == Eval([k \in 1..Len(ys[1]) |->
                                     Int64Mod(CrtSum(ys, weights, k, 1), M)])
                 S        == [k \in 1..Len(ys[1]) |-> Uint8(BigModSmall(Y[k], LARGE_PRIME_Q))]
                 unscrambled == unscramble([h |-> shape[1], w |-> shape[2], px |-> S],
                                           1, 1, SCRAMBLER_ITERATIONS,
                                           loaded_shares[1].original_shape)
             IN  IF \E i \in 1..Len(active_moduli) :
                        ~_modinv(BigDivSmall(M, active_moduli[i]), active_moduli[i]).ok
                 THEN [kind |-> "Exception"]
                 ELSE [kind |-> "image", used |-> Len(selected_shares), Y |-> Y,
                       img |-> unscrambled]

-----------------------------------------------------------------------------
(***************************************************************************)
(* The CRT specification: construct a splitter, split an image, and hand   *)
(* some of the shares to a reconstruction.                                 *)
(***************************************************************************)
MaxShares == 3      \* the longest share list handed to a reconstruction
MaxSide   == 2      \* the largest height and width of a multi-pixel image

\* the (n, t, moduli) a splitter is constructed with: the default configuration,
\* two lists generate_secure_moduli returns, an unsorted list, and lists that
\* _validate_moduli must refuse
SplitterInputs ==
    { <<N_PARTICIPANTS, T_THRESHOLD, MODULI>>,
      <<3, 2, <<257, 258, 259>>>>,
      <<4, 2, <<270, 271, 277, 281>>>>,
      <<2, 2, <<263, 257>>>>,
      <<3, 2, <<257, 263, 514>>>>,
      <<3, 2, <<251, 257, 263>>>>,
      <<4, 3, <<257, 263, 269>>>> }

EdgePixels == {0, 1, 254, 255}

\* every one-pixel image, and the multi-pixel images over the edge values
Images ==
    {[h |-> 1, w |-> 1, px |-> <<v>>] : v \in 0..PIXEL_MAX}
    \cup UNION {{[h |-> 1, w |-> ww, px |-> p] : p \in [1..ww -> {0, 255}]} : ww \in 2..MaxSide}

\* the images given to split_image
FileImages ==
    UNION {{[h |-> hh, w |-> ww, px |-> [k \in 1..(hh * ww) |-> (k * v) % 256]] :
              v \in EdgePixels} : hh \in 1..MaxSide, ww \in 1..MaxSide}

SortAsc(s) == SortSeq(s, LAMBDA x, y : x < y)

InitCRT ==
    /\ sp_state = "none" /\ sp_n = 0 /\ sp_t = 0 /\ sp_moduli = << >>
    /\ image = [h |-> 0, w |-> 0, px |-> << >>]
    /\ shares = [kind |-> "none", list |-> << >>]
    /\ rec_in = << >>
    /\ rec_out = [kind |-> "none"]

\* ImageCRTSplitter(n, t, moduli) for a configuration of the given set
ConstructWith(inputs) ==
    /\ sp_state = "none"
    /\ \E cfg \in inputs :
          /\ sp_n' = cfg[1]
          /\ sp_t' = cfg[2]
          /\ sp_moduli' = SortAsc(cfg[3])
          /\ sp_state' = IF _validate_moduli(cfg[1], SortAsc(cfg[3])) THEN "ok" ELSE "ValueError"
    /\ UNCHANGED <<image, shares, rec_in, rec_out>>

\* ImageCRTSplitter(n, t, moduli)
Construct == ConstructWith(SplitterInputs)

\* splitter.split(image_array)
Split ==
    /\ sp_state = "ok" /\ shares.kind = "none"
    /\ \E img \in Images :
          /\ image' = img
          /\ shares' = [kind |-> "payload", list |-> split(img, sp_moduli)]
    /\ UNCHANGED <<sp_state, sp_n, sp_t, sp_moduli, rec_in, rec_out>>

\* splitter.split_image(image_path)
SplitImage ==
    /\ sp_state = "ok" /\ shares.kind = "none"
    /\ \E img \in FileImages :
          /\ image' = img
          /\ shares' = [kind |-> "packet", list |-> split_image(img, sp_moduli)]
    /\ UNCHANGED <<sp_state, sp_n, sp_t, sp_moduli, rec_in, rec_out>>

\* reconstructor.reconstruct(valid_shares) on any shares of the split, in any order
Reconstruct ==
    /\ shares.kind = "payload" /\ rec_out.kind = "none"
    /\ \E k \in 0..MaxShares : \E sel \in InjSeqs(1..Len(shares.list), k) :
          /\ rec_in' = sel
          /\ rec_out' = reconstruct([i \in 1..k |-> shares.list[sel[i]]])
    /\ UNCHANGED <<sp_state, sp_n, sp_t, sp_moduli, image, shares>>

\* reconstructor.reconstruct_image(share_paths): share_paths name saved packets, and
\* a path may fail to load
ReconstructImage ==
    /\ shares.kind = "packet" /\ rec_out.kind = "none"
    /\ \E k \in 0..MaxShares : \E sel \in InjSeqs(1..Len(shares.list), k) :
       \E ok \in [1..k -> BOOLEAN] :
          LET share_paths == [i \in 1..k |-> [share |-> sel[i], ok |-> ok[i]]]
          IN  /\ rec_in' = share_paths
              /\ rec_out' = reconstruct_image(shares.list, share_paths)
    /\ UNCHANGED <<sp_state, sp_n, sp_t, sp_moduli, image, shares>>

-----------------------------------------------------------------------------
(***************************************************************************)
(* Idle subsystems.                                                        *)
(***************************************************************************)
IdleCRT ==
    /\ sp_state = "idle" /\ sp_n = 0 /\ sp_t = 0 /\ sp_moduli = << >>
    /\ image = [h |-> 0, w |-> 0, px |-> << >>]
    /\ shares = [kind |-> "idle", list |-> << >>]
    /\ rec_in = << >>
    /\ rec_out = [kind |-> "idle"]

IdleGen ==
    /\ gen_pc = "idle" /\ gen_n = 0 /\ gen_t = 0
    /\ current_start = 0 /\ gen_moduli = << >> /\ gen_rounds = 0

IdleArnold ==
    /\ ar_pc = "idle" /\ ar_a = 0 /\ ar_b = 0 /\ ar_iterations = 0
    /\ ar_img = [h |-> 0, w |-> 0, px |-> << >>]
    /\ ar_scr = [h |-> 0, w |-> 0, px |-> << >>]
    /\ ar_out = [h |-> 0, w |-> 0, px |-> << >>]

IdleRing ==
    /\ rq_pc = "idle" /\ rq_a = << >> /\ rq_b = << >>
    /\ rq_res = << >> /\ rq_swap = << >> /\ rq_ntt = << >>

IdleClassic == IdleCRT /\ IdleGen /\ IdleArnold /\ IdleRing

IdleDecompose ==
    dc_pc = "idle" /\ dc_r = 0 /\ dc_q = 0 /\ dc_out = 0

IdleNumpy == np_state = [seed |-> 0, pos |-> 0]

IdleExpand ==
    /\ ex_pc = "idle" /\ ex_kind = "idle" /\ ex_seed = << >>
    /\ ex_first = << >> /\ ex_second = << >> /\ ex_between = 0
    /\ ky_out = [kind |-> "idle"]

IdleChallenge == ch_pc = "idle" /\ ch_digest = << >> /\ ch_c = << >>

IdleThreshold ==
    /\ th_pc = "idle" /\ th_plan = [rho |-> << >>, n |-> 0, order |-> "idle"]
    /\ th_system = [kind |-> "idle"] /\ th_signers = << >>
    /\ th_ts = 0 /\ th_msg = << >> /\ th_W = "None" /\ th_resp = << >>
    /\ th_Z = [kind |-> "idle"] /\ th_c = << >> /\ th_ver = [kind |-> "idle"]

IdleSigner ==
    /\ ls_pc = "idle" /\ ls_seed = << >> /\ ls_keys = [kind |-> "idle"]
    /\ ls_msg = << >> /\ ls_sig = [kind |-> "idle"] /\ ls_ver = [kind |-> "idle"]

IdleEmbed ==
    /\ em_pc = "idle" /\ em_carrier = [h |-> 0, w |-> 0, c |-> 0, px |-> << >>]
    /\ em_payload = << >> /\ em_ulp = 0 /\ em_probe = [kind |-> "idle"]
    /\ em_stego = [kind |-> "None"] /\ em_out = "None"

IdleUnlock ==
    /\ ul_pc = "idle" /\ ul_plan = [t |-> 0] /\ ul_ids = << >>
    /\ ul_manifest = [threshold |-> 0, registry |-> << >>]
    /\ ul_done = {} /\ ul_valid = << >> /\ ul_from = << >> /\ ul_log = << >>
    /\ ul_result = [kind |-> "idle"]

IdleParty == rt_attempt = 0 /\ rt_log = << >>

IdleLock ==
    /\ lk_pc = "idle" /\ lk_plan = [n |-> 0] /\ lk_moduli = << >>
    /\ lk_shares = << >> /\ lk_anchor = << >>

IdleSignLoop == sq_seen = << >>

IdleFlow == IdleEmbed /\ IdleUnlock /\ IdleParty /\ IdleLock /\ IdleSignLoop

IdleLatOnly ==
    /\ IdleDecompose /\ IdleNumpy /\ IdleExpand /\ IdleChallenge
    /\ IdleThreshold /\ IdleSigner

IdleLattice == IdleLatOnly /\ IdleFlow

IdleNotEmbed ==
    IdleClassic /\ IdleLatOnly /\ IdleUnlock /\ IdleParty /\ IdleLock /\ IdleSignLoop

IdleNotLock ==
    IdleClassic /\ IdleLatOnly /\ IdleEmbed /\ IdleUnlock /\ IdleParty /\ IdleSignLoop

IdleNotSignLoop ==
    /\ IdleClassic /\ IdleDecompose /\ IdleExpand /\ IdleChallenge /\ IdleThreshold
    /\ IdleEmbed /\ IdleUnlock /\ IdleParty /\ IdleLock

IdleNotUnlock ==
    /\ IdleClassic /\ IdleDecompose /\ IdleExpand /\ IdleChallenge
    /\ IdleThreshold /\ IdleSigner /\ IdleEmbed /\ IdleParty /\ IdleLock /\ IdleSignLoop

IdleNotParty ==
    /\ IdleClassic /\ IdleDecompose /\ IdleExpand /\ IdleChallenge
    /\ IdleSigner /\ IdleEmbed /\ IdleUnlock /\ IdleLock /\ IdleSignLoop

IdleNotDecompose ==
    /\ IdleClassic /\ IdleNumpy /\ IdleExpand /\ IdleChallenge
    /\ IdleThreshold /\ IdleSigner /\ IdleFlow
IdleNotKeys ==
    /\ IdleClassic /\ IdleDecompose /\ IdleChallenge /\ IdleThreshold /\ IdleSigner
    /\ IdleFlow
IdleNotChallenge ==
    /\ IdleClassic /\ IdleDecompose /\ IdleNumpy /\ IdleExpand
    /\ IdleThreshold /\ IdleSigner /\ IdleFlow
IdleNotThreshold ==
    /\ IdleClassic /\ IdleDecompose /\ IdleExpand /\ IdleChallenge /\ IdleSigner
    /\ IdleFlow
IdleNotSigner ==
    /\ IdleClassic /\ IdleDecompose /\ IdleExpand /\ IdleChallenge /\ IdleThreshold
    /\ IdleFlow

-----------------------------------------------------------------------------
SpecCRTInit == InitCRT /\ IdleGen /\ IdleArnold /\ IdleRing /\ IdleLattice

SpecCRTNext ==
    \/ Construct /\ UNCHANGED <<genVars, arVars, rqVars, latVars>>
    \/ Split /\ UNCHANGED <<genVars, arVars, rqVars, latVars>>
    \/ Reconstruct /\ UNCHANGED <<genVars, arVars, rqVars, latVars>>

\* split() and reconstruct()
SpecCRT == SpecCRTInit /\ [][SpecCRTNext]_vars

SpecCRTFileNext ==
    \/ Construct /\ UNCHANGED <<genVars, arVars, rqVars, latVars>>
    \/ SplitImage /\ UNCHANGED <<genVars, arVars, rqVars, latVars>>
    \/ ReconstructImage /\ UNCHANGED <<genVars, arVars, rqVars, latVars>>

\* split_image() and reconstruct_image()
SpecCRTFile == SpecCRTInit /\ [][SpecCRTFileNext]_vars

-----------------------------------------------------------------------------
(***************************************************************************)
(* Claims about the CRT secret sharing.                                    *)
(***************************************************************************)
\* product(t smallest) > 255 * product(t-1 largest) of a sorted moduli list
AsmuthBloom(moduli, t) ==
    BigLess(BigMulSmall(BigProd(Slice(moduli, Len(moduli) - (t - 1) + 1, Len(moduli))), PIXEL_MAX),
            BigProd(Slice(moduli, 1, t)))

PairwiseCoprime(moduli) ==
    \A i, j \in 1..Len(moduli) : i /= j => Gcd(moduli[i], moduli[j]) = 1

\* C1: splitting an image with split() and reconstructing with reconstruct() from
\* any t of the n shares, in any order, returns exactly the image.
C1_CRTRoundTrip ==
    (shares.kind = "payload" /\ rec_out.kind /= "none" /\ Len(rec_in) = sp_t)
        => (rec_out.kind = "image" /\ rec_out.img = image)

C1_Witness ==
    /\ sp_moduli = MODULI /\ sp_t = T_THRESHOLD
    /\ rec_in = <<5, 1, 3>>
    /\ image.px = <<255>>
    /\ rec_out.kind = "image" /\ rec_out.img.px = <<255>>

\* C2: no set of at most t-1 shares determines a secret pixel: for every such set
\* of share indices and every pixel position another pixel value in [0,255] has the
\* same residues at those indices.
C2_ThresholdSecrecy ==
    shares.kind = "payload" =>
        \A I \in SUBSET (1..Len(shares.list)) :
            Cardinality(I) <= sp_t - 1 =>
                \A k \in 1..Len(image.px) :
                    \E v \in 0..PIXEL_MAX :
                        /\ v /= image.px[k]
                        /\ \A i \in I : Shadow(v, sp_moduli[i]) = shares.list[i].data[k]

\* C3: reconstruct() called with fewer than t shares returns no image (it fails
\* with a validation error, never with a degraded, partial or complete image).
C3_ReconstructNeedsThreshold ==
    (shares.kind = "payload" /\ rec_out.kind /= "none" /\ Len(rec_in) < sp_t)
        => rec_out.kind /= "image"

\* C4: whenever reconstruct_image returns an image, at least T_THRESHOLD shares
\* were loaded and combined (with fewer loadable shares it raises ValueError).
C4_ReconstructImageThreshold ==
    (shares.kind = "packet" /\ rec_out.kind = "image") =>
        /\ rec_out.used >= T_THRESHOLD
        /\ Cardinality({i \in 1..Len(rec_in) : rec_in[i].ok}) >= T_THRESHOLD

\* C7: a splitter is constructed exactly with the moduli sets that have n entries,
\* are pairwise coprime, exceed 255 and satisfy the Asmuth-Bloom bound; any other
\* set is refused with ValueError.
C7_ModuliInvariant ==
    sp_state \in {"ok", "ValueError"} =>
        (sp_state = "ok" <=>
            /\ Len(sp_moduli) = sp_n
            /\ PairwiseCoprime(sp_moduli)
            /\ \A i \in 1..Len(sp_moduli) : sp_moduli[i] > PIXEL_MAX
            /\ AsmuthBloom(sp_moduli, sp_t))

-----------------------------------------------------------------------------
(***************************************************************************)
(* generate_secure_moduli (moduli_gen.py).                                 *)
(***************************************************************************)
SEARCH_START  == 257     \* current_start = 257
SEARCH_WINDOW == 2000    \* candidate - current_start > 2000: break
STEP_SHORT    == 10      \* current_start += 10
STEP_FAIL     == 13      \* current_start += 13

\* is_coprime(num, existing_list)
is_coprime(num, existing_list) ==
    \A i \in 1..Len(existing_list) : Gcd(num, existing_list[i]) = 1

\* the inner while-loop: collect coprime candidates until n are found or the
\* window is left
RECURSIVE GreedyCollect(_, _, _, _)
GreedyCollect(moduli, candidate, start, n) ==
    IF ~(Len(moduli) < n) THEN moduli
    ELSE LET next == IF is_coprime(candidate, moduli) THEN Append(moduli, candidate) ELSE moduli
         IN  IF (candidate + 1) - start > SEARCH_WINDOW THEN next
             ELSE GreedyCollect(next, candidate + 1, start, n)

\* moduli[:k]
Head_(moduli, k) == Slice(moduli, 1, IF k < Len(moduli) THEN k ELSE Len(moduli))

\* moduli[-k:] for k >= 0: the last k elements, and the whole list for k = 0
Tail_(moduli, k) ==
    IF k = 0 \/ k >= Len(moduli) THEN moduli
    ELSE Slice(moduli, Len(moduli) - k + 1, Len(moduli))

SecurityCheckSmallest(moduli, t, q_pixel) ==
    BigLess(BigMulSmall(BigProd(Head_(moduli, t - 1)), q_pixel), BigProd(Head_(moduli, t)))

\* min_prod_t > q_pixel * max_prod_t_minus_1
SecurityCheck(moduli, t, q_pixel) ==
    LET min_prod_t == BigProd(Head_(moduli, t))
        max_prod_t_minus_1 == BigProd(Tail_(moduli, t - 1))
        security_bound == BigMulSmall(max_prod_t_minus_1, q_pixel)
    IN  BigLess(security_bound, min_prod_t)

MaxN      == 6      \* the largest n generate_secure_moduli is called with
MaxRounds == 15     \* the rounds of the outer loop that are followed

InitGen ==
    /\ gen_pc = "idle" /\ gen_n = 0 /\ gen_t = 0
    /\ current_start = 0 /\ gen_moduli = << >> /\ gen_rounds = 0

\* generate_secure_moduli(n, t) is called
GenCall ==
    /\ gen_pc = "idle"
    /\ \E n \in 1..MaxN : \E t \in 1..n :
          /\ gen_n' = n
          /\ gen_t' = t
    /\ current_start' = SEARCH_START
    /\ gen_pc' = "loop"
    /\ UNCHANGED <<gen_moduli, gen_rounds>>

\* one round of the outer while True
GenRound ==
    /\ gen_pc = "loop"
    /\ gen_rounds < MaxRounds
    /\ LET moduli == GreedyCollect(<< >>, current_start, current_start, gen_n)
       IN  IF Len(moduli) < gen_n
           THEN /\ current_start' = current_start + STEP_SHORT
                /\ gen_moduli' = moduli
                /\ gen_pc' = "loop"
           ELSE IF SecurityCheck(SortAsc(moduli), gen_t, PIXEL_MAX)
           THEN /\ gen_moduli' = SortAsc(moduli)
                /\ gen_pc' = "done"
                /\ UNCHANGED current_start
           ELSE /\ current_start' = current_start + STEP_FAIL
                /\ gen_moduli' = SortAsc(moduli)
                /\ gen_pc' = "loop"
    /\ gen_rounds' = gen_rounds + 1
    /\ UNCHANGED <<gen_n, gen_t>>

SpecGenInit == InitGen /\ IdleCRT /\ IdleArnold /\ IdleRing /\ IdleLattice

SpecGenNext ==
    \/ GenCall /\ UNCHANGED <<crtVars, arVars, rqVars, latVars>>
    \/ GenRound /\ UNCHANGED <<crtVars, arVars, rqVars, latVars>>

SpecGen == SpecGenInit /\ [][SpecGenNext]_vars

\* C5: whenever generate_secure_moduli(n, t) returns, the list has n entries, each
\* above 255, pairwise coprime, and product(t smallest) > 255 * product(t-1 largest).
C5_GeneratedModuliValid ==
    gen_pc = "done" =>
        /\ Len(gen_moduli) = gen_n
        /\ \A i \in 1..Len(gen_moduli) : gen_moduli[i] > PIXEL_MAX
        /\ PairwiseCoprime(gen_moduli)
        /\ AsmuthBloom(SortAsc(gen_moduli), gen_t)

C5_Witness ==
    /\ gen_pc = "done" /\ gen_n = 5 /\ gen_t = 3
    /\ gen_moduli = <<283, 284, 285, 287, 289>>

\* C6: generate_secure_moduli(n, t) returns for every 1 <= t <= n: the widening
\* loop reaches a batch that passes the check (here: within MaxRounds rounds).
C6_GenerateReturns ==
    gen_pc = "loop" => gen_rounds < MaxRounds

-----------------------------------------------------------------------------
(***************************************************************************)
(* The scrambler specification: an ArnoldScrambler(a, b, iterations) is    *)
(* given an image, scrambles it and unscrambles the result.                *)
(***************************************************************************)
MaxDim   == 3       \* the largest height and width of a scrambled image
MaxIter  == 2       \* the largest iteration count
MaxParam == 1       \* a and b range over -1..MaxParam

\* images of a shape: all cells distinct and non-zero, all cells distinct with a
\* zero, and a constant image
ArImages(hh, ww) ==
    { [h |-> hh, w |-> ww, px |-> [k \in 1..(hh * ww) |-> k]],
      [h |-> hh, w |-> ww, px |-> [k \in 1..(hh * ww) |-> k - 1]],
      [h |-> hh, w |-> ww, px |-> [k \in 1..(hh * ww) |-> PIXEL_MAX]] }

InitArnold ==
    /\ ar_pc = "init"
    /\ ar_a \in -1..MaxParam
    /\ ar_b \in -1..MaxParam
    /\ ar_iterations \in 0..MaxIter
    /\ \E hh \in 1..MaxDim : \E ww \in 1..MaxDim : ar_img \in ArImages(hh, ww)
    /\ ar_scr = [h |-> 0, w |-> 0, px |-> << >>]
    /\ ar_out = [h |-> 0, w |-> 0, px |-> << >>]

\* scrambled, shape = scrambler.scramble(image_array)
Scramble ==
    /\ ar_pc = "init"
    /\ ar_scr' = scramble(ar_img, ar_a, ar_b, ar_iterations)
    /\ ar_pc' = "scrambled"
    /\ UNCHANGED <<ar_a, ar_b, ar_iterations, ar_img, ar_out>>

\* scrambler.unscramble(scrambled, shape)
Unscramble ==
    /\ ar_pc = "scrambled"
    /\ ar_out' = unscramble(ar_scr.img, ar_a, ar_b, ar_iterations, ar_scr.shape)
    /\ ar_pc' = "unscrambled"
    /\ UNCHANGED <<ar_a, ar_b, ar_iterations, ar_img, ar_scr>>

SpecArnoldInit == InitArnold /\ IdleCRT /\ IdleGen /\ IdleRing /\ IdleLattice

SpecArnoldNext ==
    \/ Scramble /\ UNCHANGED <<crtVars, genVars, rqVars, latVars>>
    \/ Unscramble /\ UNCHANGED <<crtVars, genVars, rqVars, latVars>>

SpecArnold == SpecArnoldInit /\ [][SpecArnoldNext]_vars

\* the forward map of one round sends the n*n cells to n*n different cells
RoundIsBijection(n, a, b) ==
    Cardinality({ArnoldTarget(q \div n, q % n, n, a, b) : q \in 0..(n * n - 1)}) = n * n

\* C8: unscramble(scramble(img)[0], (h, w)) equals img for every shape, iteration
\* count and a, b; every scramble round is a bijection of the N x N padded grid.
C8_ScrambleRoundTrip ==
    /\ ar_pc \in {"scrambled", "unscrambled"} =>
           RoundIsBijection(Max(ar_img.h, ar_img.w), ar_a, ar_b)
    /\ ar_pc = "unscrambled" => ar_out = ar_img

C8_Witness ==
    /\ ar_pc = "unscrambled"
    /\ ar_img.h = 2 /\ ar_img.w = 3 /\ ar_iterations = 2 /\ ar_a = 1 /\ ar_b = 1
    /\ ar_scr.img.px /= PadSquare(ar_img, 3)
    /\ ar_out = ar_img

-----------------------------------------------------------------------------
(***************************************************************************)
(* Ring arithmetic in Zq[X]/(X^N + 1) (ntt.py, config.py).  A polynomial   *)
(* is a sequence of N coefficients; coefficient i is element i + 1.        *)
(***************************************************************************)
Q == 8380417
N == 256
ROOT_OF_UNITY == 1753

\* (x * y) % Q as Python computes it on unbounded integers: the operands are
\* reduced first and the product is taken by the bytes of y, so that no
\* intermediate exceeds TLC's 32-bit integers
MulMod(x, y) ==
    LET xr == x % Q
        yr == y % Q
    IN  IF xr = 0 \/ yr = 0 THEN 0
        ELSE IF yr < 256 THEN (xr * yr) % Q
        ELSE LET y2 == yr \div 65536
                 y1 == (yr \div 256) % 256
                 y0 == yr % 256
                 r2 == (xr * y2) % Q
                 r1 == (((r2 * 256) % Q) + ((xr * y1) % Q)) % Q
             IN  (((r1 * 256) % Q) + ((xr * y0) % Q)) % Q

\* x^d mod Q for a hexadecimal digit d
PowDigit(x, d) ==
    LET x2 == MulMod(x, x)
        x4 == MulMod(x2, x2)
        x8 == MulMod(x4, x4)
        p1 == IF d % 2 = 1 THEN x % Q ELSE 1 % Q
        p2 == IF (d \div 2) % 2 = 1 THEN MulMod(p1, x2) ELSE p1
        p4 == IF (d \div 4) % 2 = 1 THEN MulMod(p2, x4) ELSE p2
    IN  IF (d \div 8) % 2 = 1 THEN MulMod(p4, x8) ELSE p4

\* pow(base, e, Q) by square and multiply over the hexadecimal digits of e,
\* lowest first: acc is the product so far and sq is base^(16^position)
RECURSIVE PowModAcc(_, _, _)
PowModAcc(acc, sq, e) ==
    IF e = 0 THEN acc
    ELSE LET acc2 == MulMod(acc, PowDigit(sq, e % 16))
             sq2  == MulMod(PowDigit(sq, 8), PowDigit(sq, 8))
             e2   == e \div 16
         IN  IF acc2 >= 0 /\ sq2 >= 0 /\ e2 >= 0 THEN PowModAcc(acc2, sq2, e2) ELSE 0

PowMod(base, e) == PowModAcc(1 % Q, base % Q, e)

\* (a * b) % Q for a and b in [0, Q), a1 = (a * 256) % Q and
\* a2 = (a * 65536) % Q: b is taken byte by byte, which keeps every
\* intermediate product below 2^31
MulBytes(a, a1, a2, b) ==
    (((a2 * (b \div 65536)) % Q) + ((a1 * ((b \div 256) % 256)) % Q)
        + ((a * (b % 256)) % Q)) % Q

\* one pass of the outer loop of polymul_rq: row i adds poly_a[i] * poly_b[j] at
\* result[i + j], or subtracts it at result[i + j - n]; the n values of j reach
\* the n entries of result once each
PolymulRowAdd(result, i, poly_a, poly_b) ==
    LET a  == poly_a[i + 1] % Q
        a1 == (a * 256) % Q
        a2 == (a1 * 256) % Q
    IN  [k \in 1..N |->
            LET j   == (k - 1 - i) % N
                val == MulBytes(a, a1, a2, poly_b[j + 1] % Q)
            IN  (result[k] + val) % Q]

PolymulRow(result, i, poly_a, poly_b) ==
    LET a  == poly_a[i + 1] % Q
        a1 == (a * 256) % Q
        a2 == (a1 * 256) % Q
    IN  [k \in 1..N |->
            LET j   == (k - 1 - i) % N
                val == MulBytes(a, a1, a2, poly_b[j + 1] % Q)
            IN  IF i + j < N THEN (result[k] + val) % Q
                             ELSE (result[k] - val) % Q]

\* rows lo..hi of the outer loop, in order (split in halves to keep the
\* recursion shallow); a row whose coefficient poly_a[i] is 0 mod Q adds and
\* subtracts val = 0 and leaves result, which holds residues, as it is
RECURSIVE PolymulRows(_, _, _, _, _)
PolymulRows(result, lo, hi, poly_a, poly_b) ==
    IF lo = hi
    THEN IF poly_a[lo + 1] % Q = 0 THEN result
         ELSE Eval(PolymulRow(result, lo, poly_a, poly_b))
    ELSE LET mid  == (lo + hi) \div 2
             left == PolymulRows(result, lo, mid, poly_a, poly_b)
         IN  IF Len(left) = N THEN PolymulRows(left, mid + 1, hi, poly_a, poly_b)
                              ELSE left

\* polymul_rq(poly_a, poly_b)
polymul_rq(poly_a, poly_b) ==
    LET result == PolymulRows([k \in 1..N |-> 0], 0, N - 1, poly_a, poly_b)
    IN  [k \in 1..N |-> (result[k] + Q) % Q]

\* NTT._bit_reverse(k, num_bits): k written in binary on at least num_bits
\* digits (more when k needs them), the digits reversed
BitLength(k) == CHOOSE w \in 0..30 : k < 2^w /\ (w = 0 \/ 2^(w - 1) <= k)

\* the width lowest binary digits of k, reversed: the reversed lower half goes
\* above the reversed upper half
RECURSIVE ReverseBits(_, _)
ReverseBits(k, width) ==
    IF width = 0 THEN 0
    ELSE IF width = 1 THEN k % 2
    ELSE LET lower == width \div 2
             upper == width - lower
         IN  ReverseBits(k % 2^lower, lower) * 2^upper + ReverseBits(k \div 2^lower, upper)

_bit_reverse(k, num_bits) == ReverseBits(k, Max(num_bits, BitLength(k)))

\* the twiddle factors of one layer: block number blk (from 0) of the layer
\* uses the running counter j + blk
LayerZetas(len_, j) ==
    Eval([blk \in 1..(N \div (2 * len_)) |->
            PowMod(ROOT_OF_UNITY, _bit_reverse(j + (blk - 1) + len_, 8))])

\* one layer of the forward transform (Cooley-Tukey butterflies)
NttLayer(a, len_, j) ==
    LET zetas == LayerZetas(len_, j)
    IN  Eval([k \in 1..N |->
            LET blk == (k - 1) \div (2 * len_)
                lo  == ((k - 1) % (2 * len_)) < len_
                zeta == zetas[blk + 1]
            IN  IF lo THEN (a[k] + MulMod(zeta, a[k + len_])) % Q
                      ELSE (a[k - len_] - MulMod(zeta, a[k])) % Q])

\* NTT.ntt(poly): the layers len_ = n/2, n/4, ..., 1
RECURSIVE NttLayers(_, _, _)
NttLayers(a, len_, j) ==
    IF len_ > 0
    THEN LET next == NttLayer(a, len_, j)
         IN  IF Len(next) = N THEN NttLayers(next, len_ \div 2, j + N \div (2 * len_))
                              ELSE next
    ELSE a

ntt(poly) == NttLayers(poly, N \div 2, 0)

\* one layer of the inverse transform (Gentleman-Sande butterflies)
InvNttLayer(a, len_, j) ==
    LET zetas == LayerZetas(len_, j)
    IN  Eval([k \in 1..N |->
            LET blk == (k - 1) \div (2 * len_)
                lo  == ((k - 1) % (2 * len_)) < len_
                inv_zeta == (-zetas[blk + 1]) % Q
            IN  IF lo THEN (a[k] + a[k + len_]) % Q
                      ELSE MulMod(a[k - len_] - a[k], inv_zeta)])

\* NTT.inv_ntt(poly): the layers len_ = 1, 2, ..., n/2, then the scaling by n^-1
RECURSIVE InvNttLayers(_, _, _)
InvNttLayers(a, len_, j) ==
    IF len_ < N
    THEN LET next == InvNttLayer(a, len_, j)
         IN  IF Len(next) = N THEN InvNttLayers(next, len_ * 2, j + N \div (2 * len_))
                              ELSE next
    ELSE a

inv_ntt(poly) ==
    LET a     == InvNttLayers(poly, 1, 0)
        n_inv == PowMod(N, Q - 2)
    IN  Eval([i \in 1..N |-> MulMod(a[i], n_inv)])

\* NTT.poly_mul(a, b)
poly_mul(a, b) == Eval([i \in 1..N |-> MulMod(a[i], b[i])])

-----------------------------------------------------------------------------
(***************************************************************************)
(* The ring specification: two operands are multiplied by polymul_rq in    *)
(* both orders and by the transform path.                                  *)
(***************************************************************************)
MaxDeg == 1         \* the operand a has a term of degree 0..MaxDeg or N - 1

\* c * X^d
Mono(c, d) == [k \in 1..N |-> IF k = d + 1 THEN c ELSE 0] \o << >>

\* the ring identity [1, 0, ..., 0]
OnePoly == Mono(1, 0)

\* coefficients: a unit, -1 as a residue, a centered negative one, one above Q
Coefs == {1, Q - 1, -2, Q + 3}

\* first operands: monomials, and 1 + X of test_ntt.py
PolysA ==
    {Mono(c, d) : c \in Coefs, d \in (0..MaxDeg) \cup {N - 1}}
        \cup {[k \in 1..N |-> IF k <= 2 THEN 1 ELSE 0] \o << >>}

\* second operands: the identity, X, 1 - X of test_ntt.py, and a dense
\* polynomial with centered coefficients
PolysB ==
    { OnePoly,
      Mono(1, 1),
      [k \in 1..N |-> IF k = 1 THEN 1 ELSE IF k = 2 THEN Q - 1 ELSE 0] \o << >>,
      [k \in 1..N |-> ((k * 65521) % Q) - (Q \div 2)] \o << >> }

InitRing ==
    /\ rq_pc = "init"
    /\ rq_a \in PolysA
    /\ rq_b \in PolysB
    /\ rq_res = << >> /\ rq_swap = << >> /\ rq_ntt = << >>

Polymul ==
    /\ rq_pc = "init"
    /\ rq_res' = polymul_rq(rq_a, rq_b)
    /\ rq_pc' = "schoolbook"
    /\ UNCHANGED <<rq_a, rq_b, rq_swap, rq_ntt>>

PolymulSwapped ==
    /\ rq_pc = "schoolbook"
    /\ rq_swap' = polymul_rq(rq_b, rq_a)
    /\ rq_pc' = "swapped"
    /\ UNCHANGED <<rq_a, rq_b, rq_res, rq_ntt>>

NttMul ==
    /\ rq_pc = "swapped"
    /\ rq_ntt' = inv_ntt(poly_mul(ntt(rq_a), ntt(rq_b)))
    /\ rq_pc' = "done"
    /\ UNCHANGED <<rq_a, rq_b, rq_res, rq_swap>>

SpecRingInit == InitRing /\ IdleCRT /\ IdleGen /\ IdleArnold /\ IdleLattice

SpecRingNext ==
    \/ Polymul /\ UNCHANGED <<crtVars, genVars, arVars, latVars>>
    \/ PolymulSwapped /\ UNCHANGED <<crtVars, genVars, arVars, latVars>>
    \/ NttMul /\ UNCHANGED <<crtVars, genVars, arVars, latVars>>

SpecRing == SpecRingInit /\ [][SpecRingNext]_vars

\* the indices i (from 0) of the non-zero residues of a
Support(a) == {i \in 0..(N - 1) : a[i + 1] % Q /= 0}

\* the sum over i in S of the signed products that land on coefficient k
RECURSIVE ConvSum(_, _, _, _)
ConvSum(S, k, a, b) ==
    IF S = {} THEN 0
    ELSE LET i == CHOOSE x \in S : TRUE
             t == IF i <= k THEN MulMod(a[i + 1], b[k - i + 1])
                            ELSE (-MulMod(a[i + 1], b[k - i + N + 1])) % Q
         IN  (t + ConvSum(S \ {i}, k, a, b)) % Q

\* the product of a and b in Zq[X]/(X^N + 1), coefficient by coefficient
Negacyclic(a, b) ==
    LET S == Support(a)
    IN  [k \in 1..N |-> ConvSum(S, k - 1, a, b)] \o << >>

InRange(p) == \A k \in 1..N : p[k] \in 0..(Q - 1)

\* C9: polymul_rq(a, b) is the negacyclic convolution of a and b with every
\* coefficient in [0, Q), for operands with negative coefficients too; hence
\* polymul_rq(a, b) = polymul_rq(b, a), and polymul_rq(a, [1, 0, ..., 0]) is
\* a reduced mod Q.
C9_PolymulNegacyclic ==
    /\ rq_pc \in {"schoolbook", "swapped", "done"} =>
          /\ rq_res = Negacyclic(rq_a, rq_b)
          /\ InRange(rq_res)
          /\ rq_b = OnePoly => rq_res = [k \in 1..N |-> rq_a[k] % Q]
    /\ rq_pc \in {"swapped", "done"} => rq_swap = rq_res

C9_Witness ==
    /\ rq_pc = "swapped"
    /\ rq_a = Mono(-2, N - 1)
    /\ rq_b = Mono(1, 1)
    /\ rq_res = Mono(2, 0)
    /\ rq_swap = rq_res

\* C10: for operands with coefficients in [0, Q) the transform path gives
\* exactly the schoolbook product: inv_ntt(poly_mul(ntt(a), ntt(b))) =
\* polymul_rq(a, b).
C10_TransformAgrees ==
    (rq_pc = "done" /\ InRange(rq_a) /\ InRange(rq_b)) => rq_ntt = rq_res

-----------------------------------------------------------------------------
(***************************************************************************)
(* Lattice signature parameters (config.py).                               *)
(***************************************************************************)
K == 2
L == 2
ETA == 2
BETA == 250
GAMMA2 == 1047552      \* (Q - 1) // 8
GAMMA1 == 4190208      \* (Q - 1) // 2
TAU == 39
D == 14

Abs(x) == IF x < 0 THEN -x ELSE x

(***************************************************************************)
(* LatticeUtils.center_mod and decompose (utils.py), on scalars.  Python's *)
(* % and // are the floored operations, as % and \div are here.            *)
(***************************************************************************)
center_mod(x, q) ==
    LET r == x % q
    IN  IF r > q \div 2 THEN r - q ELSE r

\* decompose with the centring of r0 left out.
decomposeNoCenter(r, alpha, q) ==
    LET r_centered == center_mod(r, q)
        r0 == r_centered % alpha
    IN  <<(r_centered - r0) \div alpha, r0>>

decompose(r, alpha, q) ==
    LET r_centered == center_mod(r, q)
        m  == r_centered % alpha
        r0 == IF m > alpha \div 2 THEN m - alpha ELSE m
        r1 == (r_centered - r0) \div alpha
    IN  <<r1, r0>>

high_bits(r, alpha, q) == decompose(r, alpha, q)[1]
low_bits(r, alpha, q) == decompose(r, alpha, q)[2]

(***************************************************************************)
(* The arguments tried: every integer within MaxSpread of a multiple of    *)
(* GAMMA2 (the rounding boundaries of r0 are the odd multiples), of a      *)
(* multiple of q / 2 (the boundaries of center_mod), or of a power of two. *)
(***************************************************************************)
MaxSpread == 2

DecomposeModuli == {Q, 2 ^ D}

DecomposeArgs ==
    { b + d : b \in { m * GAMMA2 : m \in -9..9 }
                    \cup { -2 * Q, -Q, -(Q \div 2), Q \div 2, Q, 2 * Q }
                    \cup { -(2 ^ D), -(2 ^ (D - 1)), 2 ^ (D - 1), 2 ^ D },
              d \in -MaxSpread..MaxSpread }

InitDecompose ==
    /\ dc_pc = "init"
    /\ dc_r \in DecomposeArgs
    /\ dc_q \in DecomposeModuli
    /\ dc_out = 0

CenterMod ==
    /\ dc_pc = "init"
    /\ dc_out' = center_mod(dc_r, dc_q)
    /\ dc_pc' = "centered"
    /\ UNCHANGED <<dc_r, dc_q>>

Decompose ==
    /\ dc_pc = "init"
    /\ dc_out' = decompose(dc_r, 2 * GAMMA2, dc_q)
    /\ dc_pc' = "decomposed"
    /\ UNCHANGED <<dc_r, dc_q>>

SpecDecomposeInit == InitDecompose /\ IdleNotDecompose

SpecDecomposeNext ==
    \/ CenterMod /\ UNCHANGED notDecompose
    \/ Decompose /\ UNCHANGED notDecompose

SpecDecompose == SpecDecomposeInit /\ [][SpecDecomposeNext]_vars

\* v is the representative of r modulo q in (-q/2, q/2].
IsCentered(v, r, q) == (v - r) % q = 0 /\ -q < 2 * v /\ 2 * v <= q

\* C11: center_mod(x, q) is the representative of x in (-q/2, q/2], and
\* decompose(r, 2*GAMMA2, q) returns (r1, r0) with r1*alpha + r0 equal to that
\* representative of r (so congruent to r mod q) and |r0| <= alpha/2.
C11_DecomposeCentered ==
    /\ dc_pc = "centered" => IsCentered(dc_out, dc_r, dc_q)
    /\ dc_pc = "decomposed" =>
           /\ IsCentered(dc_out[1] * (2 * GAMMA2) + dc_out[2], dc_r, dc_q)
           /\ 2 * Abs(dc_out[2]) <= 2 * GAMMA2

C11_Witness ==
    /\ dc_pc = "decomposed" /\ dc_q = Q
    /\ dc_r = 3 * GAMMA2 + 1
    /\ dc_out = <<2, -GAMMA2 + 1>>

-----------------------------------------------------------------------------
(***************************************************************************)
(* numpy's global generator.  np.random.seed(s) sets the state from s     *)
(* alone and every draw advances it, so the state is the pair of the last  *)
(* seed and the number of values drawn since; Rand stands for the value    *)
(* the generator yields at a state (a fixed function, as the Mersenne      *)
(* Twister's output is).                                                   *)
(***************************************************************************)
Rand(seed, pos) ==
    LET a == (seed % 46337) + 1
        b == (pos % 46337) + 1
    IN  ((a * b) % 46349) * 40503 + 7 * a + 13 * b

\* np.random.seed(seed_int)
np_seed(seed_int) == [seed |-> seed_int, pos |-> 0]

\* np.random.randint(low, high, n).tolist() at state st: [val, st]
randint(st, low, high, n) ==
    [val |-> Eval([k \in 1..n |-> low + (Rand(st.seed, st.pos + k) % (high - low))]),
     st  |-> [seed |-> st.seed, pos |-> st.pos + n]]

\* int.from_bytes(seed[:4], 'little')
from_bytes_little4(seed) ==
    seed[1] + 256 * seed[2] + 65536 * seed[3] + 16777216 * seed[4]

\* K*L polynomials drawn one after the other from state st, as rows of a matrix.
DrawMatrix(st) ==
    [A  |-> Eval([i \in 1..K |-> Eval([j \in 1..L |->
                randint([seed |-> st.seed, pos |-> st.pos + ((i - 1) * L + (j - 1)) * N],
                        0, Q, N).val])]),
     st |-> [seed |-> st.seed, pos |-> st.pos + K * L * N]]

\* expand_a without the reseeding.
expand_a_noseed(st, seed) == DrawMatrix(st)

\* KeyGenerator.expand_a(seed) called at generator state st: [A, st]
expand_a(st, seed) == DrawMatrix(np_seed(from_bytes_little4(seed)))

(***************************************************************************)
(* LatticeUtils.gen_matrix.  hashlib.shake_128 is a fixed function of its  *)
(* input; Absorb and Squeeze stand for it.                                 *)
(***************************************************************************)
RECURSIVE Absorb(_, _, _)
Absorb(data, lo, hi) ==
    IF lo > hi THEN 0
    ELSE IF lo = hi THEN ((data[lo] + 1) * (131 * lo + 7)) % 46337
    ELSE LET mid == (lo + hi) \div 2
         IN  (Absorb(data, lo, mid) + Absorb(data, mid + 1, hi)) % 46337

\* The state of shake_128(data) after absorbing data.
shake_128(data) == Absorb(data, 1, Len(data)) + 50021 * Len(data)

\* byte idx (from 0) of hasher.digest(...)
Squeeze(hasher, idx) == Rand(hasher, idx) % 256

\* The values the sampling loop of gen_matrix appends while its index runs over
\* the 3-byte groups lo..hi of byte_stream.
RECURSIVE GenMatrixAccepted(_, _, _, _)
GenMatrixAccepted(hasher, lo, hi, q) ==
    IF lo = hi
    THEN LET b1 == Squeeze(hasher, 3 * lo)
             b2 == Squeeze(hasher, 3 * lo + 1)
             b3 == Squeeze(hasher, 3 * lo + 2)
             val == (b1 * 65536 + b2 * 256 + b3) % 8388608     \* & 0x7FFFFF
         IN  IF val < q THEN <<val>> ELSE << >>
    ELSE LET mid == (lo + hi) \div 2
             left == GenMatrixAccepted(hasher, lo, mid, q)
         IN  IF Len(left) >= 0
             THEN left \o GenMatrixAccepted(hasher, mid + 1, hi, q)
             ELSE left

GenMatrixPoly(hasher, n, q) ==
    LET acc == GenMatrixAccepted(hasher, 0, ((n * 4) \div 3) - 1, q)
    IN  Eval([c \in 1..n |-> IF c <= Len(acc) THEN acc[c] ELSE 0])

gen_matrix(seed_bytes, k, l, n, q) ==
    Eval([i \in 1..k |-> Eval([j \in 1..l |->
        LET hasher == shake_128(seed_bytes \o <<i - 1>> \o <<j - 1>>)
        IN  IF hasher >= 0 THEN GenMatrixPoly(hasher, n, q) ELSE << >>])])

(***************************************************************************)
(* Key generation (keygen.py).                                             *)
(***************************************************************************)
\* [np.random.randint(low, high, n).tolist() for _ in range(cnt)] at state st
DrawVec(st, cnt, low, high) ==
    [val |-> Eval([j \in 1..cnt |->
                randint([seed |-> st.seed, pos |-> st.pos + (j - 1) * N], low, high, N).val]),
     st  |-> [seed |-> st.seed, pos |-> st.pos + cnt * N]]

\* the products polymul_rq(row[j], vec[j]), j = 1..L
RowProducts(row, vec) == Eval([j \in 1..Len(row) |-> Eval(polymul_rq(row[j], vec[j]))])

\* sum over j <= upto of center_mod(prods[j][m])
RECURSIVE SumCentered(_, _, _)
SumCentered(prods, m, upto) ==
    IF upto = 0 THEN 0
    ELSE center_mod(prods[upto][m], Q) + SumCentered(prods, m, upto - 1)

\* the vector t of generate_party_key
PartyPublic(A, s1, s2) ==
    Eval([i \in 1..K |->
        LET prods == RowProducts(A[i], s1)
        IN  IF Len(prods) = L
            THEN Eval([m \in 1..N |-> SumCentered(prods, m, L)])
            ELSE << >>])

\* The matrix and the secret vectors of generate_party_key(rho), called at
\* generator state st: expand_a(rho), then s1 and s2 drawn from the generator.
PartySecrets(st, rho) ==
    LET ex == expand_a(st, rho)
        d1 == DrawVec(ex.st, L, -ETA, ETA + 1)
        d2 == DrawVec(d1.st, K, -ETA, ETA + 1)
    IN  [A |-> ex.A, s1 |-> d1.val, s2 |-> d2.val, st |-> d2.st]

\* KeyGenerator.generate_party_key(rho) at generator state st: [pk, sk, st]
generate_party_key(st, rho) ==
    LET ps == PartySecrets(st, rho)
    IN  [pk |-> [rho |-> rho, t |-> PartyPublic(ps.A, ps.s1, ps.s2)],
         sk |-> [rho |-> rho, s1 |-> ps.s1, s2 |-> ps.s2],
         st |-> ps.st]

\* the loop of setup_system over the parties: [keys, st]
RECURSIVE PartyKeys(_, _, _)
PartyKeys(st, rho, n_parties) ==
    IF n_parties = 0 THEN [keys |-> << >>, st |-> st]
    ELSE LET prev == PartyKeys(st, rho, n_parties - 1)
             key  == generate_party_key(prev.st, rho)
         IN  [keys |-> Append(prev.keys,
                              [pk |-> key.pk, sk |-> key.sk, id |-> n_parties - 1]),
              st   |-> key.st]

\* T[k][i] = sum of the parties' t[k][i], not reduced
RECURSIVE GroupSum(_, _, _, _)
GroupSum(keys, k, i, upto) ==
    IF upto = 0 THEN 0
    ELSE keys[upto].pk.t[k][i] + GroupSum(keys, k, i, upto - 1)

\* KeyGenerator.setup_system(n_parties), rho the value of secrets.token_bytes(32)
setup_system(st, rho, n_parties) ==
    LET pk == PartyKeys(st, rho, n_parties)
    IN  [group_pk   |-> [rho |-> rho,
                         T |-> Eval([k \in 1..K |->
                                  Eval([i \in 1..N |-> GroupSum(pk.keys, k, i, n_parties)])])],
         party_keys |-> pk.keys,
         st         |-> pk.st]

\* LatticeUtils.polymul(a, b, Q, N): the int64 convolution (no product sum
\* reaches 2^63 for operands below Q), folded at X^N = -1 and reduced mod Q.
polymul(poly_a, poly_b) == polymul_rq(poly_a, poly_b)

\* row_poly_sum of generate_keypair after j <= upto products, at coefficient m
RECURSIVE RowPolySum(_, _, _)
RowPolySum(prods, m, upto) ==
    IF upto = 0 THEN 0
    ELSE (RowPolySum(prods, m, upto - 1) + center_mod(prods[upto][m], Q)) % Q

\* KeyTool.generate_keypair(), public_seed the bytes of secrets.token_hex(32);
\* e is the error vector, a local the function does not return.
generate_keypair(st, public_seed) ==
    LET A  == gen_matrix(public_seed, K, L, N, Q)
        ds == DrawVec(st, L, -ETA, ETA + 1)
        de == DrawVec(ds.st, K, -ETA, ETA + 1)
        t  == Eval([i \in 1..K |->
                 LET prods == Eval([j \in 1..L |-> Eval(polymul(A[i][j], ds.val[j]))])
                 IN  IF Len(prods) = L
                     THEN Eval([m \in 1..N |->
                              center_mod((RowPolySum(prods, m, L) + de.val[i][m]) % Q, Q)])
                     ELSE << >>])
    IN  [pk |-> [public_seed |-> public_seed, t |-> t],
         sk |-> [public_seed |-> public_seed, s |-> ds.val, t |-> t],
         e  |-> de.val,
         st |-> de.st]

(***************************************************************************)
(* The calls tried: two expansions of one seed with other uses of the      *)
(* generator in between, and one call of each key generation function.     *)
(***************************************************************************)
MaxSeeds == 3
MaxDraws == 2
MaxParties == 2

\* 32-byte seeds (secrets.token_bytes(32)); seeds 1 and 2 share their first four bytes.
SeedBytes(a) ==
    [i \in 1..32 |-> IF i <= 4 THEN (((a \div 2) * 37 + 11) * i) % 128
                     ELSE (a * 29 + i * 7) % 256]

Seeds == { SeedBytes(a) : a \in 0..MaxSeeds }

InitKeys ==
    /\ ex_pc = "init"
    /\ ex_first = << >> /\ ex_second = << >> /\ ex_between = 0
    /\ ky_out = [kind |-> "none"]
    /\ \/ /\ ex_kind \in {"expand_a", "gen_matrix"}
          /\ ex_seed \in Seeds
          /\ \E s \in 0..MaxSeeds, d \in 0..MaxDraws :
                 np_state = [seed |-> 49999 + s, pos |-> d * N]
       \/ /\ ex_kind \in {"setup_system", "generate_keys", "generate_keypair"}
          /\ ex_seed = SeedBytes(0)
          /\ np_state = [seed |-> 49999, pos |-> N]

ExpandFirst ==
    /\ ex_pc = "init"
    /\ ex_kind \in {"expand_a", "gen_matrix"}
    /\ IF ex_kind = "expand_a"
       THEN \E r \in {expand_a(np_state, ex_seed)} :
                ex_first' = r.A /\ np_state' = r.st
       ELSE ex_first' = gen_matrix(ex_seed, K, L, N, Q) /\ UNCHANGED np_state
    /\ ex_pc' = "first"
    /\ UNCHANGED <<ex_kind, ex_seed, ex_second, ex_between, ky_out>>

\* Another user of the generator in between: sample_secret_poly()
SamplePoly ==
    /\ ex_pc = "first"
    /\ ex_between < MaxDraws
    /\ np_state' = randint(np_state, -ETA, ETA + 1, N).st
    /\ ex_between' = ex_between + 1
    /\ UNCHANGED <<ex_pc, ex_kind, ex_seed, ex_first, ex_second, ky_out>>

\* Another user in between: expand_a of another seed
ExpandOther ==
    /\ ex_pc = "first"
    /\ ex_between < MaxDraws
    /\ \E other \in Seeds \ {ex_seed} : np_state' = expand_a(np_state, other).st
    /\ ex_between' = ex_between + 1
    /\ UNCHANGED <<ex_pc, ex_kind, ex_seed, ex_first, ex_second, ky_out>>

ExpandSecond ==
    /\ ex_pc = "first"
    /\ IF ex_kind = "expand_a"
       THEN \E r \in {expand_a(np_state, ex_seed)} :
                ex_second' = r.A /\ np_state' = r.st
       ELSE ex_second' = gen_matrix(ex_seed, K, L, N, Q) /\ UNCHANGED np_state
    /\ ex_pc' = "second"
    /\ UNCHANGED <<ex_kind, ex_seed, ex_first, ex_between, ky_out>>

SetupSystem ==
    /\ ex_pc = "init" /\ ex_kind = "setup_system"
    /\ \E n_parties \in 1..MaxParties :
       \E r \in {setup_system(np_state, ex_seed, n_parties)} :
               /\ ky_out' = [kind |-> "system", group_pk |-> r.group_pk,
                             party_keys |-> r.party_keys]
               /\ np_state' = r.st
    /\ ex_pc' = "keys"
    /\ UNCHANGED <<ex_kind, ex_seed, ex_first, ex_second, ex_between>>

\* KeyGenerator.generate_keys(): expands A, samples s1 and s2, computes t and
\* ends without a return statement.
GenerateKeys ==
    /\ ex_pc = "init" /\ ex_kind = "generate_keys"
    /\ ky_out' = [kind |-> "None"]
    /\ np_state' = DrawVec(expand_a(np_state, ex_seed).st, L + K, -ETA, ETA + 1).st
    /\ ex_pc' = "keys"
    /\ UNCHANGED <<ex_kind, ex_seed, ex_first, ex_second, ex_between>>

GenerateKeypair ==
    /\ ex_pc = "init" /\ ex_kind = "generate_keypair"
    /\ \E r \in {generate_keypair(np_state, ex_seed)} :
           /\ ky_out' = [kind |-> "keypair", pk |-> r.pk, sk |-> r.sk, e |-> r.e]
           /\ np_state' = r.st
    /\ ex_pc' = "keys"
    /\ UNCHANGED <<ex_kind, ex_seed, ex_first, ex_second, ex_between>>

SpecKeysInit == InitKeys /\ IdleNotKeys

SpecKeysNext ==
    \/ ExpandFirst /\ UNCHANGED notKeys
    \/ SamplePoly /\ UNCHANGED notKeys
    \/ ExpandOther /\ UNCHANGED notKeys
    \/ ExpandSecond /\ UNCHANGED notKeys
    \/ SetupSystem /\ UNCHANGED notKeys
    \/ GenerateKeys /\ UNCHANGED notKeys
    \/ GenerateKeypair /\ UNCHANGED notKeys

SpecKeys == SpecKeysInit /\ [][SpecKeysNext]_vars

\* C12: two expansions of the same seed return the same K x L matrix, whatever
\* used the generator in between.
C12_ExpandDeterministic ==
    ex_pc = "second" =>
        /\ ex_second = ex_first
        /\ Len(ex_second) = K /\ \A i \in 1..K : Len(ex_second[i]) = L

C12_Witness ==
    /\ ex_pc = "second" /\ ex_kind = "expand_a"
    /\ ex_between = MaxDraws
    /\ ex_second = ex_first
    /\ ex_first[1][1] /= ex_first[2][2]

\* (A v)[i][m] mod Q for a K x L matrix A and a vector v of L polynomials
MatVecModQ(A, v) ==
    Eval([i \in 1..K |->
        LET prods == RowProducts(A[i], v)
        IN  IF Len(prods) = L
            THEN Eval([m \in 1..N |-> RowPolySum(prods, m, L)])
            ELSE << >>])

\* t = A s1 + s2 (mod Q), coefficient by coefficient
KeyRelation(A, t, s1, s2) ==
    LET As == MatVecModQ(A, s1)
    IN  \A i \in 1..K : \A m \in 1..N : (t[i][m] - As[i][m] - s2[i][m]) % Q = 0

\* C13: every key pair that key generation produces satisfies t = A s1 + s2
\* (mod Q) for the secret vectors generated with it, A expanded from its seed.
C13_KeyRelation ==
    /\ ky_out.kind = "system" =>
           \A p \in 1..Len(ky_out.party_keys) :
               LET key == ky_out.party_keys[p]
               IN  KeyRelation(expand_a(np_state, key.pk.rho).A,
                               key.pk.t, key.sk.s1, key.sk.s2)
    /\ ky_out.kind = "keypair" =>
           KeyRelation(gen_matrix(ky_out.pk.public_seed, K, L, N, Q),
                       ky_out.pk.t, ky_out.sk.s, ky_out.e)

\* C14: after setup_system(n), n >= 2, the parties' secrets are independent:
\* they are not all the value anyone computes from the public seed rho, and
\* they are not all equal to one another.
C14_PartySecretsIndependent ==
    (ky_out.kind = "system" /\ Len(ky_out.party_keys) >= 2) =>
        LET keys == ky_out.party_keys
            rho  == ky_out.group_pk.rho
        IN  /\ \E p \in 1..Len(keys) :
                   keys[p].sk.s1 /= PartySecrets([seed |-> 0, pos |-> 0], rho).s1
            /\ \E p, r \in 1..Len(keys) : keys[p].sk.s1 /= keys[r].sk.s1

-----------------------------------------------------------------------------
(***************************************************************************)
(* The challenge polynomial (signer.py, _derive_challenge and              *)
(* SignatureAggregator.derive_challenge: the same code twice).             *)
(***************************************************************************)
\* One pass of the loop body for digest byte b; the break leaves the rest of the
\* digest unread, which is this step doing nothing once weight reaches TAU.
ChallengeStep(st, b) ==
    IF st.weight >= TAU THEN st
    ELSE LET idx == b % N
         IN  IF st.c[idx + 1] = 0
             THEN [c |-> [st.c EXCEPT ![idx + 1] = IF b % 2 = 1 THEN 1 ELSE -1],
                   weight |-> st.weight + 1]
             ELSE st

\* the loop over digest[lo..hi] (1-based), from loop state st
RECURSIVE ChallengeLoop(_, _, _, _)
ChallengeLoop(st, digest, lo, hi) ==
    IF lo = hi THEN ChallengeStep(st, digest[lo])
    ELSE LET mid == (lo + hi) \div 2
             left == ChallengeLoop(st, digest, lo, mid)
         IN  IF left.weight >= 0
             THEN ChallengeLoop(left, digest, mid + 1, hi)
             ELSE left

\* c as derive_challenge builds it from the digest
ChallengeFromDigest(digest) ==
    ChallengeLoop([c |-> [k \in 1..N |-> 0], weight |-> 0], digest, 1, Len(digest)).c

(***************************************************************************)
(* The digests tried.  SHAKE-256 yields N // 2 = 128 bytes; byte i of a    *)
(* digest of the family is ((stride * i) mod period + offset) mod 256, so  *)
(* that the digest holds at most `period` distinct byte values.            *)
(***************************************************************************)
MaxStride == 3
MaxOffset == 2

DigestPeriods == {1, 2, TAU - 1, TAU, TAU + 1, 64, 128, 256}

Digests ==
    { [i \in 1..(N \div 2) |-> (((stride * i) % period) + offset * 85) % 256] :
          stride \in 1..MaxStride, period \in DigestPeriods, offset \in 0..MaxOffset }

InitChallenge ==
    /\ ch_pc = "init"
    /\ ch_digest \in Digests
    /\ ch_c = << >>

DeriveChallenge ==
    /\ ch_pc = "init"
    /\ ch_c' = ChallengeFromDigest(ch_digest)
    /\ ch_pc' = "derived"
    /\ UNCHANGED ch_digest

SpecChallengeInit == InitChallenge /\ IdleNotChallenge

SpecChallengeNext == DeriveChallenge /\ UNCHANGED notChallenge

SpecChallenge == SpecChallengeInit /\ [][SpecChallengeNext]_vars

\* C15: the challenge is a length-N polynomial with exactly TAU nonzero
\* coefficients, each -1 or +1, whatever bytes the digest contains.
C15_ChallengeWeight ==
    ch_pc = "derived" =>
        /\ Len(ch_c) = N
        /\ \A k \in 1..N : ch_c[k] \in {-1, 0, 1}
        /\ Cardinality({k \in 1..N : ch_c[k] /= 0}) = TAU

-----------------------------------------------------------------------------
(***************************************************************************)
(* Threshold signing (signer.py: ThresholdSigner, SignatureAggregator).    *)
(***************************************************************************)
\* byte i (from 0) of int(x).to_bytes(4, 'little', signed=True)
SignedByte4(x, i) ==
    LET u == IF x >= 0 THEN x ELSE (x + 2147483647) + 1
        b == (u \div (256 ^ i)) % 256
    IN  IF x < 0 /\ i = 3 THEN b + 128 ELSE b

\* int(timestamp).to_bytes(8, 'little'), timestamp below 2^31
TimestampBytes(timestamp) ==
    [i \in 1..8 |-> IF i <= 4 THEN (timestamp \div (256 ^ (i - 1))) % 256 ELSE 0]

\* input_data = message + w_bytes + t_bytes
ChallengeInput(message, W_HighBits, timestamp) ==
    LET w_bytes == [p \in 1..(4 * Len(W_HighBits) * N) |->
                       LET coeff == (p - 1) \div 4
                       IN  SignedByte4(W_HighBits[(coeff \div N) + 1][(coeff % N) + 1],
                                       (p - 1) % 4)]
    IN  message \o w_bytes \o TimestampBytes(timestamp)

\* The state of hashlib.shake_256(data) after absorbing data (a fixed function
\* of data, and not the one shake_128 is).
shake_256(data) == Absorb(data, 1, Len(data)) + 50021 * Len(data) + 1

\* SignatureAggregator.derive_challenge
derive_challenge(message, W_HighBits, timestamp) ==
    LET hasher == shake_256(ChallengeInput(message, W_HighBits, timestamp))
    IN  IF hasher >= 0
        THEN ChallengeFromDigest([i \in 1..(N \div 2) |-> Squeeze(hasher, i - 1)])
        ELSE << >>

\* ThresholdSigner._derive_challenge: the same statements as derive_challenge
signer_derive_challenge(message, W_HighBits, timestamp) ==
    derive_challenge(message, W_HighBits, timestamp)

\* [[high_bits(c, alpha, Q) for c in poly] for poly in W]
HighBitsVec(W, alpha) ==
    Eval([k \in 1..Len(W) |-> Eval([m \in 1..N |-> high_bits(W[k][m], alpha, Q)])])

\* [[center_mod(c, Q) for c in poly] for poly in vec]
CenterVec(vec) ==
    Eval([k \in 1..Len(vec) |-> Eval([m \in 1..N |-> center_mod(vec[k][m], Q)])])

\* max([abs(c) for c in poly[lo..hi]])
RECURSIVE MaxAbs(_, _, _)
MaxAbs(poly, lo, hi) ==
    IF lo = hi THEN Abs(poly[lo])
    ELSE LET mid   == (lo + hi) \div 2
             left  == MaxAbs(poly, lo, mid)
             right == MaxAbs(poly, mid + 1, hi)
         IN  IF left >= right THEN left ELSE right

infinity_norm(poly) == MaxAbs(poly, 1, Len(poly))

\* LatticeUtils.vec_infinity_norm: max_norm after the polynomials 1..upto
RECURSIVE VecNormUpto(_, _)
VecNormUpto(vec, upto) ==
    IF upto = 0 THEN 0
    ELSE LET max_norm == VecNormUpto(vec, upto - 1)
             poly_max == infinity_norm(vec[upto])
         IN  IF poly_max > max_norm THEN poly_max ELSE max_norm

vec_infinity_norm(vec) == VecNormUpto(vec, Len(vec))

poly_add(p1, p2, q) == Eval([m \in 1..Len(p1) |-> (p1[m] + p2[m]) % q])
poly_sub(p1, p2, q) == Eval([m \in 1..Len(p1) |-> (p1[m] - p2[m]) % q])

\* sum over j <= upto of prods[j][m], not reduced
RECURSIVE SumPlain(_, _, _)
SumPlain(prods, m, upto) ==
    IF upto = 0 THEN 0 ELSE prods[upto][m] + SumPlain(prods, m, upto - 1)

\* _matrix_vec_mul(matrix, vec): row_sum accumulates the products unreduced
matrix_vec_mul(matrix, vec) ==
    Eval([i \in 1..Len(matrix) |->
        LET prods == RowProducts(matrix[i], vec)
        IN  IF Len(prods) = Len(matrix[i])
            THEN Eval([m \in 1..N |-> SumPlain(prods, m, Len(prods))])
            ELSE << >>])

\* ThresholdSigner(sk_share, index) at generator state st: [signer, st].  The
\* field Ay holds _matrix_vec_mul(self.A, self.y) for the current y, the value
\* phase1_commitment computes and phase2_response computes again.
ThresholdSigner(st, sk_share, index) ==
    LET ex == expand_a(st, sk_share.rho)
    IN  [signer |-> [sk |-> sk_share, index |-> index, A |-> ex.A, y |-> "None",
                     Ay |-> "None", w_share |-> "None", timestamp |-> "None"],
         st     |-> ex.st]

\* signer.phase1_commitment(timestamp) at generator state st, `now` the value
\* of int(time.time()); timestamp 0 stands for None as well: [signer, st]
phase1_commitment(st, signer, timestamp, now) ==
    LET bound == GAMMA1 \div 8                        \* GAMMA1 >> 3
        dy    == DrawVec(st, L, -bound, bound + 1)
        Ay    == matrix_vec_mul(signer.A, dy.val)
    IN  [signer |-> [signer EXCEPT !.timestamp = IF timestamp /= 0 THEN timestamp ELSE now,
                                   !.y = dy.val,
                                   !.Ay = Ay,
                                   !.w_share = CenterVec(Ay)],
         st     |-> dy.st]

\* max_low_norm of phase2_response
RECURSIVE MaxLowNorm(_, _, _)
MaxLowNorm(R, alpha, upto) ==
    IF upto = 0 THEN 0
    ELSE LET max_low_norm == MaxLowNorm(R, alpha, upto - 1)
             low == Eval([i \in 1..N |->
                        low_bits(center_mod(R[upto][i], Q), alpha, Q)])
             m   == infinity_norm(low)
         IN  IF m > max_low_norm THEN m ELSE max_low_norm

\* phase2_response without the LowBits check
phase2_response_nolow(signer, global_Ay_sum, message_bytes) ==
    IF signer.y = "None" THEN "ValueError"
    ELSE LET alpha    == 2 * GAMMA2
             W_true   == HighBitsVec(global_Ay_sum, alpha)
             c_poly   == signer_derive_challenge(message_bytes, W_true, signer.timestamp)
             z_share  == Eval([j \in 1..L |->
                             poly_add(signer.y[j],
                                      Eval(polymul_rq(c_poly, signer.sk.s1[j])), Q)])
             max_norm == vec_infinity_norm(CenterVec(z_share))
         IN  IF max_norm >= GAMMA1 - BETA THEN "None"
             ELSE z_share

\* signer.phase2_response(global_Ay_sum, message_bytes): "ValueError", "None"
\* or z_share
phase2_response(signer, global_Ay_sum, message_bytes) ==
    IF signer.y = "None" THEN "ValueError"
    ELSE LET alpha    == 2 * GAMMA2
             W_true   == HighBitsVec(global_Ay_sum, alpha)
             c_poly   == signer_derive_challenge(message_bytes, W_true, signer.timestamp)
             z_share  == Eval([j \in 1..L |->
                             poly_add(signer.y[j],
                                      Eval(polymul_rq(c_poly, signer.sk.s1[j])), Q)])
             max_norm == vec_infinity_norm(CenterVec(z_share))
             R        == Eval([k \in 1..Len(signer.sk.s2) |->
                             poly_sub(signer.Ay[k],
                                      Eval(polymul_rq(c_poly, signer.sk.s2[k])), Q)])
         IN  IF max_norm >= GAMMA1 - BETA THEN "None"
             ELSE IF MaxLowNorm(R, alpha, Len(R)) >= GAMMA2 - BETA THEN "None"
             ELSE z_share

\* sum over the first upto shares of share[k][i], not reduced
RECURSIVE ShareSum(_, _, _, _)
ShareSum(list, k, i, upto) ==
    IF upto = 0 THEN 0 ELSE list[upto][k][i] + ShareSum(list, k, i, upto - 1)

\* SignatureAggregator.aggregate_w_shares(w_shares)
aggregate_w_shares(w_shares) ==
    IF w_shares = << >> THEN "None"
    ELSE Eval([k \in 1..Len(w_shares[1]) |->
             Eval([i \in 1..Len(w_shares[1][1]) |->
                 center_mod(ShareSum(w_shares, k, i, Len(w_shares)), Q)])])

\* SignatureAggregator.aggregate_responses(z_shares)
aggregate_responses(z_shares) ==
    IF z_shares = << >> THEN "None"
    ELSE Eval([l \in 1..Len(z_shares[1]) |->
             Eval([i \in 1..Len(z_shares[1][1]) |->
                 ShareSum(z_shares, l, i, Len(z_shares))])])

\* verify_final_signature without the norm check on Z
verify_final_signature_nonorm(Z, C_poly, T_pub, A_matrix, message, timestamp, W_sum) ==
    IF W_sum /= "None"
    THEN derive_challenge(message, HighBitsVec(W_sum, 2 * GAMMA2), timestamp) = C_poly
    ELSE LET AZ == matrix_vec_mul(A_matrix, Z)
             actual == Eval([k \in 1..Len(T_pub) |->
                           poly_sub(AZ[k], Eval(polymul_rq(C_poly, T_pub[k])), Q)])
             W_prime == HighBitsVec(CenterVec(actual), 2 * GAMMA2)
         IN  derive_challenge(message, W_prime, timestamp) = C_poly

\* SignatureAggregator.verify_final_signature(Z, C_poly, T_pub, A_matrix,
\* message, timestamp, W_sum), W_sum "None" when it is not given
verify_final_signature(Z, C_poly, T_pub, A_matrix, message, timestamp, W_sum) ==
    IF vec_infinity_norm(CenterVec(Z)) >= GAMMA1 - BETA THEN FALSE
    ELSE IF W_sum /= "None"
    THEN derive_challenge(message, HighBitsVec(W_sum, 2 * GAMMA2), timestamp) = C_poly
    ELSE LET AZ == matrix_vec_mul(A_matrix, Z)
             actual == Eval([k \in 1..Len(T_pub) |->
                           poly_sub(AZ[k], Eval(polymul_rq(C_poly, T_pub[k])), Q)])
             W_prime == HighBitsVec(CenterVec(actual), 2 * GAMMA2)
         IN  derive_challenge(message, W_prime, timestamp) = C_poly

(***************************************************************************)
(* A signing session.  The parties' signers are created and committed in   *)
(* the order of their indices, either each signer committing right after   *)
(* its creation (tests/test_signature_verification.py) or all signers      *)
(* created first (test/test_lattice_system.py; not in a plan of order      *)
(* "each"); the coordinator then aggregates the commitments, every signer  *)
(* answers, the coordinator aggregates a list of accepted responses and a  *)
(* verifier is called.                                                     *)
(***************************************************************************)
MaxSigners == 2
MaxMsg == 1
MaxSkew == 1

Message(m) == <<115, 101, 99, 114, 101, 116 + m>>
Timestamp(d) == 1700000000 + d

\* The sessions tried: SeedBytes(0) leads to accepted responses, SeedBytes(32)
\* to a rejected one.
ThresholdPlans ==
    { [rho |-> SeedBytes(0), n |-> n, order |-> "free"] : n \in 1..MaxSigners }
        \cup { [rho |-> SeedBytes(32), n |-> 1, order |-> "free"] }

InitSession ==
    /\ th_pc = "init"
    /\ th_system = [kind |-> "none"]
    /\ th_signers = << >>
    /\ th_ts = Timestamp(0)
    /\ th_msg = << >> /\ th_W = "None" /\ th_resp = << >>
    /\ th_Z = [kind |-> "none"] /\ th_c = << >> /\ th_ver = [kind |-> "none"]
    /\ np_state = [seed |-> 49999, pos |-> N]

InitThreshold == InitSession /\ th_plan \in ThresholdPlans

ThresholdSetup ==
    /\ th_pc = "init"
    /\ \E r \in {setup_system(np_state, th_plan.rho, th_plan.n)} :
           /\ th_system' = [kind |-> "system", group_pk |-> r.group_pk,
                            party_keys |-> r.party_keys]
           /\ np_state' = r.st
    /\ th_pc' = "keys"
    /\ UNCHANGED <<th_plan, th_signers, th_ts, th_msg, th_W, th_resp, th_Z, th_c, th_ver>>

Committed(signer) == signer.y /= "None"

NewSigner ==
    /\ th_pc = "keys"
    /\ Len(th_signers) < Len(th_system.party_keys)
    /\ \/ \A i \in 1..Len(th_signers) : Committed(th_signers[i])
       \/ /\ th_plan.order = "free"
          /\ \A i \in 1..Len(th_signers) : ~Committed(th_signers[i])
    /\ \E key \in {th_system.party_keys[Len(th_signers) + 1]} :
       \E r \in {ThresholdSigner(np_state, key.sk, key.id)} :
           /\ th_signers' = Append(th_signers, r.signer)
           /\ np_state' = r.st
    /\ UNCHANGED <<th_pc, th_plan, th_system, th_ts, th_msg, th_W, th_resp, th_Z, th_c,
                   th_ver>>

Phase1Commitment ==
    /\ th_pc = "keys"
    /\ \E i \in 1..Len(th_signers) :
           /\ ~Committed(th_signers[i])
           /\ \A j \in 1..(i - 1) : Committed(th_signers[j])
           /\ i = Len(th_signers) \/ Len(th_signers) = Len(th_system.party_keys)
           /\ \E r \in {phase1_commitment(np_state, th_signers[i], th_ts, th_ts)} :
                  /\ th_signers' = [th_signers EXCEPT ![i] = r.signer]
                  /\ np_state' = r.st
    /\ UNCHANGED <<th_pc, th_plan, th_system, th_ts, th_msg, th_W, th_resp, th_Z, th_c,
                   th_ver>>

\* the coordinator: W_sum of all the commitments and the challenge for the message
AggregateCommitments ==
    /\ th_pc = "keys"
    /\ Len(th_signers) = Len(th_system.party_keys)
    /\ \A i \in 1..Len(th_signers) : Committed(th_signers[i])
    /\ \E m \in 0..MaxMsg :
       \E W_sum \in {aggregate_w_shares([i \in 1..Len(th_signers) |->
                                            th_signers[i].w_share])} :
               /\ th_msg' = Message(m)
               /\ th_W' = W_sum
               /\ th_c' = derive_challenge(Message(m), HighBitsVec(W_sum, 2 * GAMMA2),
                                           th_ts)
    /\ th_pc' = "committed"
    /\ UNCHANGED <<th_plan, th_system, th_signers, th_ts, th_resp, th_Z, th_ver, np_state>>

Phase2Response ==
    /\ th_pc = "committed"
    /\ Len(th_resp) < Len(th_signers)
    /\ th_resp' = Append(th_resp,
                         phase2_response(th_signers[Len(th_resp) + 1], th_W, th_msg))
    /\ UNCHANGED <<th_pc, th_plan, th_system, th_signers, th_ts, th_msg, th_W, th_Z, th_c,
                   th_ver, np_state>>

Accepted(resp) == SelectSeq(resp, LAMBDA r : r /= "None")

\* aggregate_responses called with the first cnt accepted responses
AggregateResponses ==
    /\ th_pc = "committed"
    /\ Len(th_resp) = Len(th_signers)
    /\ \E cnt \in 0..Len(Accepted(th_resp)) :
           LET z_shares == SubSeq(Accepted(th_resp), 1, cnt)
           IN  th_Z' = [kind |-> "called", z_shares |-> z_shares,
                        Z |-> aggregate_responses(z_shares)]
    /\ th_pc' = "aggregated"
    /\ UNCHANGED <<th_plan, th_system, th_signers, th_ts, th_msg, th_W, th_resp, th_c,
                   th_ver, np_state>>

\* The calls of verify_final_signature tried: the session's own values, or
\* those with one argument replaced.
VerifyChanges ==
    { [what |-> w, by |-> 0] : w \in {"none", "Z", "Z_norm", "c", "W", "W_high", "T", "A"} }
        \cup { [what |-> "message", by |-> m] : m \in 0..MaxMsg }
        \cup { [what |-> "timestamp", by |-> d] : d \in 1..MaxSkew }

VerifyArgs(v) ==
    [Z         |-> IF v.what = "Z" THEN [th_Z.Z EXCEPT ![1][1] = @ + 1]
                   ELSE IF v.what = "Z_norm" THEN [th_Z.Z EXCEPT ![1][1] = GAMMA1]
                   ELSE th_Z.Z,
     C_poly    |-> IF v.what = "c" THEN [th_c EXCEPT ![1] = 1 - @] ELSE th_c,
     T_pub     |-> IF v.what = "T" THEN [th_system.group_pk.T EXCEPT ![1][1] = @ + 1]
                   ELSE th_system.group_pk.T,
     A_matrix  |-> IF v.what = "A" THEN [th_signers[1].A EXCEPT ![1][1][1] = (@ + 1) % Q]
                   ELSE th_signers[1].A,
     message   |-> IF v.what = "message" THEN Message(v.by) ELSE th_msg,
     timestamp |-> IF v.what = "timestamp" THEN th_ts + v.by ELSE th_ts,
     W_sum     |-> IF v.what = "W" THEN [th_W EXCEPT ![1][1] = center_mod(@ + 1, Q)]
                   ELSE IF v.what = "W_high"
                   THEN [th_W EXCEPT ![1][1] = center_mod(@ + 2 * GAMMA2, Q)]
                   ELSE th_W]

VerifyFinalSignature ==
    /\ th_pc = "aggregated"
    /\ th_Z.Z /= "None"
    /\ \E v \in VerifyChanges :
       \E a \in {VerifyArgs(v)} :
               /\ v.what = "message" => a.message /= th_msg
               /\ th_ver' = [kind |-> "called", change |-> v.what, args |-> a,
                              result |-> verify_final_signature(a.Z, a.C_poly, a.T_pub,
                                             a.A_matrix, a.message, a.timestamp, a.W_sum)]
    /\ th_pc' = "verified"
    /\ UNCHANGED <<th_plan, th_system, th_signers, th_ts, th_msg, th_W, th_resp, th_Z, th_c,
                   np_state>>

SpecThresholdInit == InitThreshold /\ IdleNotThreshold

SpecThresholdNext ==
    \/ ThresholdSetup /\ UNCHANGED notThreshold
    \/ NewSigner /\ UNCHANGED notThreshold
    \/ Phase1Commitment /\ UNCHANGED notThreshold
    \/ AggregateCommitments /\ UNCHANGED notThreshold
    \/ Phase2Response /\ UNCHANGED notThreshold
    \/ AggregateResponses /\ UNCHANGED notThreshold
    \/ VerifyFinalSignature /\ UNCHANGED notThreshold

SpecThreshold == SpecThresholdInit /\ [][SpecThresholdNext]_vars

\* the two rejection bounds for the response z of a signer to the challenge c
NormBound(z) ==
    \A j \in 1..Len(z) : \A m \in 1..N : Abs(center_mod(z[j][m], Q)) < GAMMA1 - BETA

LowBitsBound(signer, c) ==
    \A k \in 1..K :
        LET Ce == Eval(polymul_rq(c, signer.sk.s2[k]))
        IN  \A m \in 1..N :
                Abs(low_bits(signer.Ay[k][m] - Ce[m], 2 * GAMMA2, Q)) < GAMMA2 - BETA

\* C16: a response phase2_response returns is z = y + c s1 for the challenge c
\* of (message, HighBits(W_sum), the signer's timestamp) and meets both
\* rejection bounds; when either bound fails for that z, None is returned.
C16_ResponseBounds ==
    (th_pc = "committed" /\ th_resp /= << >>) =>
        LET signer == th_signers[Len(th_resp)]
            r == th_resp[Len(th_resp)]
            c == derive_challenge(th_msg, HighBitsVec(th_W, 2 * GAMMA2), signer.timestamp)
            z == Eval([j \in 1..L |->
                     LET cs == Eval(polymul_rq(c, signer.sk.s1[j]))
                     IN  Eval([m \in 1..N |-> signer.y[j][m] + cs[m]])])
            ok == NormBound(z) /\ LowBitsBound(signer, c)
        IN  /\ (r /= "None") <=> ok
            /\ r /= "None" =>
                   /\ Len(r) = L
                   /\ \A j \in 1..L : \A m \in 1..N : (r[j][m] - z[j][m]) % Q = 0
                   /\ NormBound(r)

C16_Witness ==
    /\ th_pc = "committed" /\ Len(th_resp) = MaxSigners
    /\ th_resp[Len(th_resp)] /= "None"
    /\ th_signers[1].y /= th_signers[Len(th_resp)].y

\* C17: aggregate_responses called with fewer than T_THRESHOLD responses fails:
\* it returns no aggregated Z.
C17_AggregationNeedsThreshold ==
    (th_Z.kind = "called" /\ Len(th_Z.z_shares) < T_THRESHOLD) => th_Z.Z = "None"

(***************************************************************************)
(* A session of FullParties parties, the least number whose masking        *)
(* vectors, each within GAMMA1 >> 3, can add up to the bound GAMMA1 - BETA *)
(* on the aggregated response.                                             *)
(***************************************************************************)
FullParties == ((GAMMA1 - BETA) \div (GAMMA1 \div 8)) + 1

QuorumPlans == { [rho |-> SeedBytes(54), n |-> FullParties, order |-> "each"] }

InitQuorum == InitSession /\ th_plan \in QuorumPlans

SpecQuorumInit == InitQuorum /\ IdleNotThreshold

SpecQuorumNext ==
    \/ ThresholdSetup /\ UNCHANGED notThreshold
    \/ NewSigner /\ UNCHANGED notThreshold
    \/ Phase1Commitment /\ UNCHANGED notThreshold
    \/ AggregateCommitments /\ UNCHANGED notThreshold
    \/ Phase2Response /\ UNCHANGED notThreshold
    \/ AggregateResponses /\ UNCHANGED notThreshold
    \/ VerifyFinalSignature /\ UNCHANGED notThreshold

SpecQuorum == SpecQuorumInit /\ [][SpecQuorumNext]_vars

\* C18: when at least T_THRESHOLD parties with keys of one setup_system commit
\* and answer for the same message and timestamp against the W_sum of exactly
\* their commitments and none is rejected, verify_final_signature accepts the
\* aggregate of their responses with the challenge of (message,
\* HighBits(W_sum), timestamp).
C18_ThresholdCompleteness ==
    ( /\ th_pc = "verified" /\ th_ver.change = "none"
      /\ Len(th_signers) >= T_THRESHOLD
      /\ \A i \in 1..Len(th_resp) : th_resp[i] /= "None"
      /\ th_Z.z_shares = th_resp )
        => th_ver.result = TRUE

-----------------------------------------------------------------------------
(***************************************************************************)
(* LatticeSigner (signer.py): sign and verify for a KeyTool key pair.      *)
(***************************************************************************)
\* the ASCII text of a non-negative integer
RECURSIVE DecimalText(_)
DecimalText(x) ==
    IF x < 10 THEN <<48 + x>> ELSE DecimalText(x \div 10) \o <<48 + (x % 10)>>

IntText(x) == IF x < 0 THEN <<45>> \o DecimalText(-x) ELSE DecimalText(x)

\* the texts of items lo..hi joined by ", "
RECURSIVE JoinText(_, _, _)
JoinText(items, lo, hi) ==
    IF lo = hi THEN items[lo]
    ELSE LET mid == (lo + hi) \div 2
         IN  JoinText(items, lo, mid) \o <<44, 32>> \o JoinText(items, mid + 1, hi)

\* json.dumps([p.tolist() for p in w]).encode()
json_dumps(w) ==
    LET polys == [k \in 1..Len(w) |->
                     <<91>> \o JoinText([i \in 1..Len(w[k]) |-> IntText(w[k][i])],
                                        1, Len(w[k])) \o <<93>>]
    IN  <<91>> \o JoinText(polys, 1, Len(w)) \o <<93>>

\* hashlib.sha256(data).digest(): 32 bytes, a fixed function of data
sha256(data) ==
    LET hasher == Absorb(data, 1, Len(data)) + 50021 * Len(data) + 2
    IN  IF hasher >= 0 THEN Eval([i \in 1..32 |-> Squeeze(hasher, i - 1)]) ELSE << >>

\* bytes.hex(): two hexadecimal digits for each byte
hex(bytes) ==
    Eval([i \in 1..(2 * Len(bytes)) |->
        IF i % 2 = 1 THEN bytes[(i + 1) \div 2] \div 16 ELSE bytes[i \div 2] % 16])

\* int.from_bytes(hash_bytes[:8], 'big') % (2**32): the 32-bit word of bytes
\* 5..8, kept as the signed integer with the same 32 bits
SeedWord(hash_bytes) ==
    (IF hash_bytes[5] >= 128 THEN hash_bytes[5] - 256 ELSE hash_bytes[5]) * 16777216
        + hash_bytes[6] * 65536 + hash_bytes[7] * 256 + hash_bytes[8]

\* np.random.choice(n, TAU, replace=False) draws the head of a permutation of
\* range(n): step k of the shuffle swaps entry k with a drawn entry k..n
ShuffleStep(perm, st, k) ==
    LET j == k + (Rand(st.seed, st.pos + k) % (Len(perm) - k + 1))
    IN  [perm EXCEPT ![k] = perm[j], ![j] = perm[k]]

RECURSIVE ShuffleLoop(_, _, _, _)
ShuffleLoop(perm, st, lo, hi) ==
    IF lo = hi THEN ShuffleStep(perm, st, lo)
    ELSE LET mid  == (lo + hi) \div 2
             left == ShuffleLoop(perm, st, lo, mid)
         IN  IF Len(left) > 0 THEN ShuffleLoop(left, st, mid + 1, hi) ELSE left

\* LatticeSigner._hash_to_poly(hash_bytes, n): [c, st], st the generator state
\* it leaves behind
hash_to_poly(hash_bytes, n) ==
    LET st   == np_seed(SeedWord(hash_bytes))
        perm == ShuffleLoop([k \in 1..n |-> k - 1], st, 1, TAU)
    IN  [c  |-> Eval([k \in 1..n |->
                    IF \E i \in 1..TAU : perm[i] = k - 1
                    THEN LET i == CHOOSE i \in 1..TAU : perm[i] = k - 1
                         IN  IF Rand(st.seed, st.pos + n + i) % 2 = 0 THEN -1 ELSE 1
                    ELSE 0]),
         st |-> [seed |-> st.seed, pos |-> st.pos + n + TAU]]

\* sum_poly of LatticeSigner._matrix_vec_mul after j <= upto products
RECURSIVE SumModQ(_, _, _)
SumModQ(prods, m, upto) ==
    IF upto = 0 THEN 0 ELSE (SumModQ(prods, m, upto - 1) + prods[upto][m]) % Q

\* LatticeSigner._matrix_vec_mul(M, v, Q)
signer_matrix_vec_mul(M, v) ==
    Eval([i \in 1..Len(M) |->
        LET prods == Eval([j \in 1..Len(M[i]) |-> Eval(polymul(M[i][j], v[j]))])
        IN  IF Len(prods) = Len(M[i])
            THEN Eval([m \in 1..N |-> SumModQ(prods, m, Len(prods))])
            ELSE << >>])

\* LatticeSigner.sign(sk, message_bytes) at generator state st: [signature, y, st]
\* (y is a local of sign)
sign(st, sk, message_bytes) ==
    LET alpha  == 2 * GAMMA2
        A      == gen_matrix(sk.public_seed, K, L, N, Q)
        dy     == DrawVec(st, L, -GAMMA1, GAMMA1)
        Ay     == signer_matrix_vec_mul(A, dy.val)
        w      == HighBitsVec(Ay, alpha)
        c_hash == sha256(message_bytes \o json_dumps(w))
        hp     == hash_to_poly(c_hash, N)
        z      == Eval([j \in 1..Len(sk.s) |->
                      LET cs == Eval(polymul(hp.c, sk.s[j]))
                      IN  Eval([m \in 1..N |-> (dy.val[j][m] + cs[m]) % Q])])
    IN  [signature |-> [z |-> z, w |-> w, c_hash |-> hex(c_hash)],
         y         |-> dy.val,
         st        |-> hp.st]

\* max_error of verify: the largest |Diff| over the coefficients
VerifyMaxError(pk, c_poly, signature) ==
    LET alpha == 2 * GAMMA2
        A     == gen_matrix(pk.public_seed, K, L, N, Q)
        Az    == signer_matrix_vec_mul(A, signature.z)
        Diff  == Eval([k \in 1..Len(pk.t) |->
                     LET ct == Eval(polymul(c_poly, pk.t[k]))
                     IN  Eval([m \in 1..N |->
                             LET V  == (Az[k][m] - ct[m]) % Q
                                 df == (V - signature.w[k][m] * alpha) % Q
                             IN  IF df <= Q \div 2 THEN df ELSE df - Q])])
    IN  vec_infinity_norm(Diff)

\* verify with the tolerance BETA + 500, without alpha // 2
verify_tight(st, pk, message_bytes, signature) ==
    LET recomputed_hash == sha256(message_bytes \o json_dumps(signature.w))
    IN  IF hex(recomputed_hash) /= signature.c_hash
        THEN [result |-> FALSE, max_error |-> "none", st |-> st]
        ELSE LET hp        == hash_to_poly(recomputed_hash, N)
                 max_error == VerifyMaxError(pk, hp.c, signature)
                 limit     == BETA + 500
             IN  [result |-> max_error < limit, max_error |-> max_error, st |-> hp.st]

\* LatticeSigner.verify(pk, message_bytes, signature) at generator state st:
\* [result, max_error, st]
verify(st, pk, message_bytes, signature) ==
    LET recomputed_hash == sha256(message_bytes \o json_dumps(signature.w))
    IN  IF hex(recomputed_hash) /= signature.c_hash
        THEN [result |-> FALSE, max_error |-> "none", st |-> st]
        ELSE LET hp        == hash_to_poly(recomputed_hash, N)
                 max_error == VerifyMaxError(pk, hp.c, signature)
                 limit     == BETA + ((2 * GAMMA2) \div 2) + 500
             IN  [result |-> max_error < limit, max_error |-> max_error, st |-> hp.st]

(***************************************************************************)
(* The calls tried: a key pair, a signature of a message with its secret   *)
(* key, and a verify call with its public key for the signature or for a   *)
(* changed one, and for any of the messages.                               *)
(***************************************************************************)
MaxKeys == 1
MaxTamper == 6

SignerSeeds == { SeedBytes(2 * a) : a \in 0..MaxKeys }

InitSigner ==
    /\ ls_pc = "init"
    /\ ls_seed \in SignerSeeds
    /\ ls_keys = [kind |-> "none"]
    /\ ls_msg = << >>
    /\ ls_sig = [kind |-> "none"]
    /\ ls_ver = [kind |-> "none"]
    /\ np_state = [seed |-> 49999, pos |-> N]

SignerKeypair ==
    /\ ls_pc = "init"
    /\ \E r \in {generate_keypair(np_state, ls_seed)} :
           /\ ls_keys' = [kind |-> "keypair", pk |-> r.pk, sk |-> r.sk, e |-> r.e]
           /\ np_state' = r.st
    /\ ls_pc' = "keys"
    /\ UNCHANGED <<ls_seed, ls_msg, ls_sig, ls_ver>>

Sign ==
    /\ ls_pc = "keys"
    /\ \E m \in 0..MaxMsg :
       \E r \in {sign(np_state, ls_keys.sk, Message(m))} :
           /\ ls_msg' = Message(m)
           /\ ls_sig' = [kind |-> "signature", signature |-> r.signature, y |-> r.y]
           /\ np_state' = r.st
    /\ ls_pc' = "signed"
    /\ UNCHANGED <<ls_seed, ls_keys, ls_ver>>

SignatureChanges ==
    { [what |-> "none", at |-> 0] }
        \cup { [what |-> w, at |-> i] : w \in {"w", "c_hash"}, i \in 1..MaxTamper }

ChangedSignature(signature, ch) ==
    IF ch.what = "w" THEN [signature EXCEPT !.w[1][ch.at] = @ + 1]
    ELSE IF ch.what = "c_hash" THEN [signature EXCEPT !.c_hash[ch.at] = (@ + 1) % 16]
    ELSE signature

Verify ==
    /\ ls_pc = "signed"
    /\ \E m \in 0..MaxMsg, ch \in SignatureChanges :
       \E signature \in {ChangedSignature(ls_sig.signature, ch)} :
       \E r \in {verify(np_state, ls_keys.pk, Message(m), signature)} :
           /\ ls_ver' = [kind |-> "called", message |-> Message(m), change |-> ch.what,
                         signature |-> signature, result |-> r.result,
                         max_error |-> r.max_error]
           /\ np_state' = r.st
    /\ ls_pc' = "verified"
    /\ UNCHANGED <<ls_seed, ls_keys, ls_msg, ls_sig>>

SpecSignerInit == InitSigner /\ IdleNotSigner

SpecSignerNext ==
    \/ SignerKeypair /\ UNCHANGED notSigner
    \/ Sign /\ UNCHANGED notSigner
    \/ Verify /\ UNCHANGED notSigner

SpecSigner == SpecSignerInit /\ [][SpecSignerNext]_vars

\* C20: verify(pk, m, sign(sk, m)) is true for a key pair of generate_keypair
\* and a message m: the hash of m and the serialized w is the c_hash of the
\* signature, and every coefficient of the centered difference of A z - c t
\* and alpha w is below BETA + alpha / 2 + 500 in absolute value.
C20_SignVerifyComplete ==
    (ls_pc = "verified" /\ ls_ver.message = ls_msg /\ ls_ver.signature = ls_sig.signature)
        => /\ ls_ver.result = TRUE
           /\ hex(sha256(ls_msg \o json_dumps(ls_sig.signature.w))) = ls_sig.signature.c_hash
           /\ ls_ver.max_error < BETA + GAMMA2 + 500

C20_Witness ==
    /\ ls_pc = "verified" /\ ls_ver.message = ls_msg /\ ls_ver.change = "none"
    /\ ls_msg = Message(MaxMsg)
    /\ ls_ver.result = TRUE
    /\ ls_ver.max_error > BETA + 500

-----------------------------------------------------------------------------
(***************************************************************************)
(* DCT steganography (image_stego): DCTEmbedder.embed and the extractor.   *)
(*                                                                         *)
(* An image is [h, w, c, px] with px[channel][row][column], all from 1.    *)
(* The embedder writes the coefficient (u, v) = (0, 4) of the orthonormal  *)
(* 8x8 transform of cv2.dct, whose basis function is the same for every    *)
(* row and is +1/8 in the columns 0, 3, 4, 7 and -1/8 in the columns 1, 2, *)
(* 5, 6 of the block: sqrt(1/8) * sqrt(2/8) * cos((2 y + 1) pi / 4).  The  *)
(* coefficient of a block of integers is therefore a multiple of 1/8; the  *)
(* model carries coefficients in eighths and pixels of the float image in  *)
(* sixty-fourths, which is exact.                                          *)
(***************************************************************************)
block_size == 8
EMBEDDING_STRENGTH == 25
TARGET_COEFF_INDEX == 14

zigzag_map ==
    << <<0, 0>>, <<0, 1>>, <<1, 0>>, <<2, 0>>, <<1, 1>>, <<0, 2>>, <<0, 3>>, <<1, 2>>,
       <<2, 1>>, <<3, 0>>, <<4, 0>>, <<3, 1>>, <<2, 2>>, <<1, 3>>, <<0, 4>>, <<0, 5>>,
       <<1, 4>>, <<2, 3>>, <<3, 2>>, <<4, 1>>, <<5, 0>>, <<6, 0>>, <<5, 1>>, <<4, 2>>,
       <<3, 3>>, <<2, 4>>, <<1, 5>>, <<0, 6>>, <<0, 7>>, <<1, 6>>, <<2, 5>>, <<3, 4>>,
       <<4, 3>>, <<5, 2>>, <<6, 1>>, <<7, 0>>, <<7, 1>>, <<6, 2>>, <<5, 3>>, <<4, 4>>,
       <<3, 5>>, <<2, 6>>, <<1, 7>>, <<2, 7>>, <<3, 6>>, <<4, 5>>, <<5, 4>>, <<6, 3>>,
       <<7, 2>>, <<7, 3>>, <<6, 4>>, <<5, 5>>, <<4, 6>>, <<3, 7>>, <<4, 7>>, <<5, 6>>,
       <<6, 5>>, <<7, 4>>, <<7, 5>>, <<6, 6>>, <<5, 7>>, <<6, 7>>, <<7, 6>>, <<7, 7>> >>

get_coordinates(index) ==
    IF 0 <= index /\ index < Len(zigzag_map) THEN zigzag_map[index + 1] ELSE "ValueError"

target_uv == get_coordinates(TARGET_COEFF_INDEX)

\* 8 * the basis function of the coefficient target_uv = (0, 4) at column y of a
\* block (y from 0): the sign of cos((2 y + 1) pi / 4).
BasisSign(y) == IF ((2 * y + 1) % 8) \in {1, 7} THEN 1 ELSE -1

\* BitStreamUtils
bytes_to_bits(data_bytes) ==
    [n \in 1..(8 * Len(data_bytes)) |->
        (data_bytes[((n - 1) \div 8) + 1] \div (2 ^ (7 - ((n - 1) % 8)))) % 2]

RECURSIVE BitsValue(_, _, _)
BitsValue(bits, lo, hi) ==
    IF hi < lo THEN 0 ELSE 2 * BitsValue(bits, lo, hi - 1) + bits[hi]

bits_to_bytes(bits) ==
    [i \in 1..(Len(bits) \div 8) |-> BitsValue(bits, 8 * i - 7, 8 * i)]

int_to_bytes(number, size) ==
    [i \in 1..size |-> (number \div (256 ^ (size - i))) % 256]

RECURSIVE bytes_to_int(_)
bytes_to_int(byte_data) ==
    IF byte_data = << >> THEN 0
    ELSE 256 * bytes_to_int(SubSeq(byte_data, 1, Len(byte_data) - 1))
            + byte_data[Len(byte_data)]

\* _preprocess_carrier on the pixels of a copy of the image
preprocess_carrier(px) ==
    [ch \in 1..Len(px) |-> [r \in 1..Len(px[ch]) |-> [col \in 1..Len(px[ch][r]) |->
        IF px[ch][r][col] = 0 THEN 1
        ELSE IF px[ch][r][col] = 255 THEN 254 ELSE px[ch][r][col]]]]

\* 8 * cv2.dct(block)[target_uv] for the block at rows 8 i + 1 .. 8 i + 8 and
\* columns 8 j + 1 .. 8 j + 8 of one channel
RowSum(row, j) ==
    row[8 * j + 1] - row[8 * j + 2] - row[8 * j + 3] + row[8 * j + 4]
        + row[8 * j + 5] - row[8 * j + 6] - row[8 * j + 7] + row[8 * j + 8]

BlockCoeff(plane, i, j) ==
    RowSum(plane[8 * i + 1], j) + RowSum(plane[8 * i + 2], j)
        + RowSum(plane[8 * i + 3], j) + RowSum(plane[8 * i + 4], j)
        + RowSum(plane[8 * i + 5], j) + RowSum(plane[8 * i + 6], j)
        + RowSum(plane[8 * i + 7], j) + RowSum(plane[8 * i + 8], j)

\* _embed_bit_in_block on the target coefficient; coeff and k in the same unit
embed_bit_in_block_sign(k, coeff, bit) ==
    IF bit = 1 THEN (IF coeff <= 0 THEN k ELSE coeff)
    ELSE IF bit = 0 THEN (IF coeff >= 0 THEN -k ELSE coeff)
    ELSE coeff

embed_bit_in_block(k, coeff, bit) ==
    IF bit = 1
    THEN IF coeff <= 0 THEN k
         ELSE IF coeff < k THEN k
         ELSE coeff
    ELSE IF bit = 0
    THEN IF coeff >= 0 THEN -k
         ELSE IF coeff > -k THEN -k
         ELSE coeff
    ELSE coeff

\* np.clip(x, 0, 255).astype(np.uint8) of the float x = x64 / 64, which the
\* float32 transform pair returned exactly (ulp = 0) or a hair below (ulp = 1)
ClipUint8(x64, ulp) ==
    IF x64 - ulp < 0 THEN 0
    ELSE IF x64 >= 255 * 64 THEN 255
    ELSE (x64 - ulp) \div 64

\* The blocks of the loops of embed, in their order channel, row, column: block
\* (channel, i, j) carries the bit of index channel * bh * bw + i * bw + j, and
\* the blocks past the last bit are not transformed.
EmbedPixels(safe, h, w, c, bits, ulp) ==
    LET bh == h \div 8
        bw == w \div 8
        k8 == 8 * EMBEDDING_STRENGTH
        delta == Eval([ch \in 1..c |-> Eval([i \in 1..bh |-> Eval([j \in 1..bw |->
                    LET idx   == (ch - 1) * bh * bw + (i - 1) * bw + (j - 1)
                        coeff == BlockCoeff(safe[ch], i - 1, j - 1)
                    IN  IF idx < Len(bits)
                        THEN [done |-> TRUE,
                              by |-> embed_bit_in_block(k8, coeff, bits[idx + 1]) - coeff]
                        ELSE [done |-> FALSE, by |-> 0]])])])
    IN  [ch \in 1..c |-> [r \in 1..h |-> [col \in 1..w |->
            LET i == (r - 1) \div 8
                j == (col - 1) \div 8
            IN  IF i < bh /\ j < bw /\ delta[ch][i + 1][j + 1].done
                THEN ClipUint8(64 * safe[ch][r][col]
                                 + BasisSign((col - 1) % 8) * delta[ch][i + 1][j + 1].by, ulp)
                ELSE safe[ch][r][col]]]]

\* the capacity of a carrier as embed computes it, and as its pixel count suggests
max_blocks(h, w, c) == (h \div 8) * (w \div 8) * c

max_blocks_pixels(h, w, c) == ((h * w) \div 64) * c

EmbedWith(capacity, carrier_image, payload_bytes, ulp) ==
    LET payload_len   == Len(payload_bytes)
        header        == int_to_bytes(payload_len, 4)
        full_data     == header \o payload_bytes
        bits_to_embed == bytes_to_bits(full_data)
        total_bits    == Len(bits_to_embed)
        h == carrier_image.h
        w == carrier_image.w
        c == carrier_image.c
    IN  IF total_bits > capacity
        THEN [carrier |-> carrier_image, result |-> [kind |-> "ValueError"]]
        ELSE [carrier |-> carrier_image,
              result  |-> [h |-> h, w |-> w, c |-> c, kind |-> "stego",
                           px |-> EmbedPixels(preprocess_carrier(carrier_image.px),
                                              h, w, c, bits_to_embed, ulp)]]

embed_pixels(carrier_image, payload_bytes, ulp) ==
    EmbedWith(max_blocks_pixels(carrier_image.h, carrier_image.w, carrier_image.c),
              carrier_image, payload_bytes, ulp)

\* DCTEmbedder.embed from its second step on: [carrier, result], the array of
\* the caller after the call and the stego image returned or "ValueError"
embed(carrier_image, payload_bytes, ulp) ==
    EmbedWith(max_blocks(carrier_image.h, carrier_image.w, carrier_image.c),
              carrier_image, payload_bytes, ulp)

\* The extractor: the blocks in the same order, one bit per block, 1 when the
\* target coefficient is positive; the 4 bytes of the length first, then that
\* many bytes or as many as the image holds.
ExtractBits(img, n) ==
    LET bh == img.h \div 8
        bw == img.w \div 8
        m  == IF n < bh * bw * img.c THEN n ELSE bh * bw * img.c
    IN  [idx \in 1..m |->
            LET ch == (idx - 1) \div (bh * bw)
                i  == ((idx - 1) % (bh * bw)) \div bw
                j  == (idx - 1) % bw
            IN  IF BlockCoeff(img.px[ch + 1], i, j) > 0 THEN 1 ELSE 0]

extract(stego_image) ==
    LET header == bits_to_bytes(ExtractBits(stego_image, 32))
    IN  IF Len(header) < 4 THEN << >>
        ELSE LET payload_len == bytes_to_int(header)
                 all == bits_to_bytes(ExtractBits(stego_image, 32 + 8 * payload_len))
             IN  SubSeq(all, 5, Len(all))

(***************************************************************************)
(* The stego specification: a carrier and a payload are chosen, embed is   *)
(* called and extract reads its result; _embed_bit_in_block is also called *)
(* on its own with coefficients around 0, +k and -k.                       *)
(***************************************************************************)
MaxPayload == 1     \* the longest payload, in bytes
MaxOff     == 1     \* the probed coefficients are within MaxOff eighths of 0, k, -k

\* 0: black, 1: white, 2: a ramp, 3: black with a white dot of two pixels in
\* the fourth row of every block
CoverPixel(kind, ch, r, col) ==
    IF kind = 0 THEN 0
    ELSE IF kind = 1 THEN 255
    ELSE IF kind = 2 THEN (37 * r + 11 * col + 101 * ch) % 256
    ELSE IF r % 8 = 4 /\ (col % 8) \in {2, 3} THEN 255 ELSE 0

Cover(h, w, c, kind) ==
    [h |-> h, w |-> w, c |-> c, kind |-> kind,
     px |-> Eval([ch \in 1..c |-> Eval([r \in 1..h |-> Eval([col \in 1..w |->
                CoverPixel(kind, ch, r, col)])])])]

\* two block rows that hold the longest payload exactly; one block short of it,
\* with spare pixels; three channels with room to spare; too small for a header
CoverShapes ==
    { <<16, 8 * (16 + 4 * MaxPayload), 1>>,
      <<15, 8 * (32 + 8 * MaxPayload) - 1, 1>>,
      <<9, 8 * (11 + 3 * MaxPayload) + 3, 3>>,
      <<16, 40, 3>> }

PayloadBytes == {0, 1, 165}

Payloads == UNION { [1..n -> PayloadBytes] : n \in 0..MaxPayload }

ProbeCoeffs ==
    { s * 8 * EMBEDDING_STRENGTH + d : s \in {-1, 0, 1}, d \in (0 - MaxOff)..MaxOff }

InitEmbed ==
    /\ em_pc = "init"
    /\ \E sh \in CoverShapes, kind \in 0..3 : em_carrier = Cover(sh[1], sh[2], sh[3], kind)
    /\ em_payload \in Payloads
    /\ em_ulp \in {0, 1}
    /\ em_probe = [kind |-> "idle"]
    /\ em_stego = [kind |-> "None"]
    /\ em_out = "None"

EmbedBitInBlock ==
    /\ em_pc = "init"
    /\ \E coeff \in ProbeCoeffs, bit \in {0, 1} :
          em_probe' = [kind |-> "called", coeff |-> coeff, bit |-> bit,
                       out |-> embed_bit_in_block(8 * EMBEDDING_STRENGTH, coeff, bit)]
    /\ em_pc' = "probed"
    /\ UNCHANGED <<em_carrier, em_payload, em_ulp, em_stego, em_out>>

Embed ==
    /\ em_pc = "init"
    /\ \E r \in {embed(em_carrier, em_payload, em_ulp)} :
          /\ em_carrier' = r.carrier
          /\ em_stego' = r.result
    /\ em_pc' = "embedded"
    /\ UNCHANGED <<em_payload, em_ulp, em_probe, em_out>>

Extract ==
    /\ em_pc = "embedded"
    /\ em_stego.kind = "stego"
    /\ em_out' = extract(em_stego)
    /\ em_pc' = "extracted"
    /\ UNCHANGED <<em_carrier, em_payload, em_ulp, em_probe, em_stego>>

SpecStegoInit == InitEmbed /\ IdleNotEmbed

SpecStegoNext ==
    \/ EmbedBitInBlock /\ UNCHANGED notEmbed
    \/ Embed /\ UNCHANGED notEmbed
    \/ Extract /\ UNCHANGED notEmbed

SpecStego == SpecStegoInit /\ [][SpecStegoNext]_vars

\* the bits the framed payload needs, and the blocks the carrier offers
FramedBits == 8 * (4 + Len(em_payload))

\* C21: when the 4-byte length and the payload need more bits than
\* floor(h/8) * floor(w/8) * channels, embed raises ValueError, returns no
\* stego image and leaves the carrier as it was.
C21_CapacityCheck ==
    (em_pc = "embedded"
        /\ FramedBits > (em_carrier.h \div 8) * (em_carrier.w \div 8) * em_carrier.c)
        => /\ em_stego.kind = "ValueError"
           /\ em_carrier = Cover(em_carrier.h, em_carrier.w, em_carrier.c, em_carrier.kind)

C21_Witness ==
    /\ em_pc = "embedded" /\ em_stego.kind = "ValueError"
    /\ FramedBits = (em_carrier.h \div 8) * (em_carrier.w \div 8) * em_carrier.c + 1
    /\ FramedBits <= ((em_carrier.h * em_carrier.w) \div 64) * em_carrier.c

C29_EmbedBitPolarity ==
    em_pc = "probed" =>
        LET k == 8 * EMBEDDING_STRENGTH
        IN  /\ em_probe.bit = 1 => em_probe.out >= k
            /\ em_probe.bit = 0 => em_probe.out <= 0 - k
            /\ (em_probe.bit = 1 /\ em_probe.coeff >= k) => em_probe.out = em_probe.coeff
            /\ (em_probe.bit = 0 /\ em_probe.coeff <= 0 - k) => em_probe.out = em_probe.coeff

C29_Witness ==
    /\ em_pc = "probed" /\ em_probe.bit = 1
    /\ em_probe.coeff = MaxOff - 8 * EMBEDDING_STRENGTH
    /\ em_probe.out = 8 * EMBEDDING_STRENGTH

-----------------------------------------------------------------------------
(***************************************************************************)
(* The unlock flow (unlock_asset.main): the loop over the stego files of   *)
(* the asset directory and the reconstruction after it.                    *)
(*                                                                         *)
(* A stego file is [name, content, bytes]: bytes is what the extractor     *)
(* returns for it (content "unreadable": it raises).  pickle.dumps of a    *)
(* share is a framed byte string that pickle.loads takes apart again and   *)
(* rejects when the frame is broken.                                       *)
(***************************************************************************)
Word(x) == <<x \div 256, x % 256>>

RECURSIVE Words(_, _, _)
Words(data, lo, hi) ==
    IF hi < lo THEN << >>
    ELSE IF lo = hi THEN Word(data[lo])
    ELSE Words(data, lo, (lo + hi) \div 2) \o Words(data, ((lo + hi) \div 2) + 1, hi)

\* SharePayload.to_bytes
to_bytes(sp) ==
    <<128, 4, sp.index>> \o Word(sp.modulus) \o <<sp.shape[1], sp.shape[2]>>
        \o Words(sp.data, 1, Len(sp.data)) \o <<46>>

\* ImageCRTReconstructor.deserialize_share: None when pickle.loads raises
deserialize_share(share_bytes) ==
    LET n == Len(share_bytes)
    IN  IF n < 8 THEN [kind |-> "None"]
        ELSE IF share_bytes[1] /= 128 \/ share_bytes[2] /= 4 \/ share_bytes[n] /= 46
                  \/ n /= 8 + 2 * share_bytes[6] * share_bytes[7]
        THEN [kind |-> "None"]
        ELSE [kind    |-> "payload",
              index   |-> share_bytes[3],
              modulus |-> 256 * share_bytes[4] + share_bytes[5],
              shape   |-> <<share_bytes[6], share_bytes[7]>>,
              data    |-> [k \in 1..(share_bytes[6] * share_bytes[7]) |->
                              256 * share_bytes[6 + 2 * k] + share_bytes[7 + 2 * k]]]

\* str.encode() of a hexdigest: the ASCII codes of its digits
HexText(digits) ==
    [i \in 1..Len(digits) |-> IF digits[i] < 10 THEN 48 + digits[i] ELSE 87 + digits[i]]

\* hashlib.sha256(data).hexdigest()
hexdigest(data) == hex(sha256(data))

\* One turn of the loop of main for the file `file`, after the check of the
\* count: what it found, the payload it appended (if any) and the generator
\* state it leaves.  check_hash and check_valid tell whether the fingerprint
\* and the result of verify are looked at.
ScanWith(check_hash, check_valid, st, manifest, ids, keydir, session_id, file) ==
    LET matches == SelectSeq(manifest.registry, LAMBDA item : item.carrier_file = file.name)
        none    == [outcome |-> "no_entry", is_valid |-> FALSE, payload |-> [kind |-> "None"],
                    st |-> st]
    IN  IF matches = << >> THEN none
        ELSE IF file.content = "unreadable" THEN [none EXCEPT !.outcome = "extract_error"]
        ELSE LET entry        == matches[1]
                 share_bytes  == file.bytes
                 payload      == deserialize_share(share_bytes)
                 current_hash == hexdigest(share_bytes)
                 owner        == entry.owner_alias
             IN  IF payload.kind = "None" THEN [none EXCEPT !.outcome = "format_error"]
                 ELSE IF check_hash /\ current_hash /= entry.share_fingerprint
                 THEN [none EXCEPT !.outcome = "fingerprint_mismatch"]
                 ELSE IF keydir[owner] = "nosk" THEN [none EXCEPT !.outcome = "no_key"]
                 ELSE LET sk  == ids[owner].sk
                          pk  == IF keydir[owner] = "wrongpk"
                                 THEN ids[(owner % Len(ids)) + 1].pk ELSE ids[owner].pk
                          msg == HexText(current_hash) \o session_id
                          sg  == sign(st, sk, msg)
                          vr  == verify(sg.st, pk, msg, sg.signature)
                      IN  IF vr.result \/ ~check_valid
                          THEN [outcome |-> "collected", is_valid |-> vr.result,
                                payload |-> payload, st |-> vr.st]
                          ELSE [outcome |-> "rejected", is_valid |-> vr.result,
                                payload |-> [kind |-> "None"], st |-> vr.st]

scan_file_nohash(st, manifest, ids, keydir, session_id, file) ==
    ScanWith(FALSE, TRUE, st, manifest, ids, keydir, session_id, file)

scan_file_noverify(st, manifest, ids, keydir, session_id, file) ==
    ScanWith(TRUE, FALSE, st, manifest, ids, keydir, session_id, file)

scan_file(st, manifest, ids, keydir, session_id, file) ==
    ScanWith(TRUE, TRUE, st, manifest, ids, keydir, session_id, file)

\* the end of main, from the check of the count on
finish_nocount(valid_shares_payloads, t) ==
    LET r == reconstruct(valid_shares_payloads)
    IN  IF r.kind = "image" THEN [kind |-> "written", img |-> r.img]
        ELSE [kind |-> "error"]

finish(valid_shares_payloads, t) ==
    IF Len(valid_shares_payloads) < t THEN [kind |-> "insufficient"]
    ELSE LET r == reconstruct(valid_shares_payloads)
         IN  IF r.kind = "image" THEN [kind |-> "written", img |-> r.img]
             ELSE [kind |-> "error"]

(***************************************************************************)
(* The cases tried: two shares of a two-pixel image locked for two owners, *)
(* and an asset directory whose files hold a share, a changed share, the   *)
(* other file's share, broken bytes, or are not in the manifest.           *)
(***************************************************************************)
MaxExtra == 2       \* files of the asset directory that the manifest does not list

\* str(uuid.uuid4()).encode()
SessionId ==
    [i \in 1..36 |-> IF i \in {9, 14, 19, 24} THEN 45
                     ELSE IF i = 15 THEN 52
                     ELSE IF i = 20 THEN 56
                     ELSE 48 + (i % 10)]

UnlockSecret == [h |-> 1, w |-> 2, px |-> <<200, 13>>]
UnlockModuli == <<257, 263>>
UnlockShares == split(UnlockSecret, UnlockModuli)

\* the two key pairs of the owners, written by two runs of generate_identity
Identities(st) ==
    LET a == generate_keypair(st, SeedBytes(0))
        b == generate_keypair(a.st, SeedBytes(2))
    IN  << [pk |-> a.pk, sk |-> a.sk], [pk |-> b.pk, sk |-> b.sk] >>

FileBytes(content, k) ==
    LET good == to_bytes(UnlockShares[k])
    IN  IF content = "share" THEN good
        ELSE IF content = "tampered" THEN [good EXCEPT ![9] = (@ + 1) % 256]
        ELSE IF content = "garbled" THEN SubSeq(good, 1, Len(good) - 1)
        ELSE << >>

StegoFile(name, content, k) == [name |-> name, content |-> content, bytes |-> FileBytes(content, k)]

Extras == { StegoFile(2 + e, "share", 1) : e \in 1..MaxExtra }

UnlockPlans ==
    { [t |-> 1, keys |-> <<"ok", "ok">>,
       files |-> {StegoFile(1, "share", 1), StegoFile(2, "tampered", 2)}],
      [t |-> 2, keys |-> <<"ok", "ok">>,
       files |-> {StegoFile(1, "share", 1), StegoFile(2, "share", 2)}],
      [t |-> 2, keys |-> <<"wrongpk", "ok">>,
       files |-> {StegoFile(1, "share", 1), StegoFile(2, "tampered", 2)}],
      [t |-> 2, keys |-> <<"ok", "ok">>,
       files |-> {StegoFile(1, "share", 2), StegoFile(2, "share", 1)} \cup Extras],
      [t |-> 1, keys |-> <<"nosk", "nosk">>,
       files |-> {StegoFile(1, "share", 1), StegoFile(2, "tampered", 2)} \cup Extras],
      [t |-> 1, keys |-> <<"ok", "ok">>,
       files |-> {StegoFile(1, "garbled", 1), StegoFile(2, "unreadable", 2)} \cup Extras] }

Manifest(t) ==
    [threshold |-> t,
     registry  |-> [i \in 1..Len(UnlockShares) |->
                      [share_index |-> i - 1, modulus |-> UnlockModuli[i], carrier_file |-> i,
                       share_fingerprint |-> hexdigest(to_bytes(UnlockShares[i])),
                       owner_alias |-> i]]]

InitUnlock ==
    /\ ul_pc = "scan"
    /\ np_state = [seed |-> 49999, pos |-> N]
    /\ ul_ids = Identities(np_state)
    /\ ul_plan \in UnlockPlans
    /\ ul_manifest = Manifest(ul_plan.t)
    /\ ul_done = {} /\ ul_valid = << >> /\ ul_from = << >> /\ ul_log = << >>
    /\ ul_result = [kind |-> "running"]

\* one turn of the loop: the next file of stego_files, which os.listdir gave in
\* an order of its own
ScanFile ==
    /\ ul_pc = "scan"
    /\ Len(ul_valid) < ul_manifest.threshold
    /\ \E file \in ul_plan.files :
          /\ file.name \notin ul_done
          /\ \E r \in {scan_file(np_state, ul_manifest, ul_ids, ul_plan.keys, SessionId, file)} :
                /\ np_state' = r.st
                /\ ul_done' = ul_done \cup {file.name}
                /\ ul_log' = Append(ul_log, [file |-> file.name, outcome |-> r.outcome,
                                             is_valid |-> r.is_valid])
                /\ ul_valid' = IF r.outcome = "collected"
                               THEN Append(ul_valid, r.payload) ELSE ul_valid
                /\ ul_from' = IF r.outcome = "collected"
                              THEN Append(ul_from, file) ELSE ul_from
    /\ UNCHANGED <<ul_pc, ul_plan, ul_ids, ul_manifest, ul_result>>

\* the loop ends (enough payloads, or no file left) and main goes on to step 4
Finish ==
    /\ ul_pc = "scan"
    /\ \/ Len(ul_valid) >= ul_manifest.threshold
       \/ \A file \in ul_plan.files : file.name \in ul_done
    /\ ul_result' = finish(ul_valid, ul_manifest.threshold)
    /\ ul_pc' = "done"
    /\ UNCHANGED <<np_state, ul_plan, ul_ids, ul_manifest, ul_done, ul_valid, ul_from, ul_log>>

SpecUnlockInit == InitUnlock /\ IdleNotUnlock

SpecUnlockNext ==
    \/ ScanFile /\ UNCHANGED notUnlock
    \/ Finish /\ UNCHANGED notUnlock

SpecUnlock == SpecUnlockInit /\ [][SpecUnlockNext]_vars

\* the registry entry of a file, and whether its bytes have the fingerprint
EntryOf(file) ==
    SelectSeq(ul_manifest.registry, LAMBDA item : item.carrier_file = file.name)

FingerprintMatches(file) ==
    /\ EntryOf(file) /= << >>
    /\ hexdigest(file.bytes) = EntryOf(file)[1].share_fingerprint

\* C23: a file whose extracted bytes do not hash to the share_fingerprint of
\* its manifest entry never contributes to valid_shares_payloads, in whatever
\* order the files are gone through.
C23_FingerprintGate ==
    \A i \in 1..Len(ul_from) : FingerprintMatches(ul_from[i])

C23_Witness ==
    /\ ul_pc = "done" /\ ul_result.kind = "written" /\ Len(ul_valid) = 1
    /\ \E file \in ul_plan.files :
          /\ file.name \in ul_done /\ ~FingerprintMatches(file)
          /\ deserialize_share(file.bytes).kind = "payload"
          /\ \E j \in 1..Len(ul_log) :
                ul_log[j] = [file |-> file.name, outcome |-> "fingerprint_mismatch",
                             is_valid |-> FALSE]

\* C24: the reconstruction runs only with at least t collected payloads, each
\* collected after its fingerprint matched and verify returned true; with
\* fewer the flow ends as insufficient and writes no image.
C24_QuorumBeforeReconstruct ==
    /\ \A i \in 1..Len(ul_from) :
          /\ FingerprintMatches(ul_from[i])
          /\ \E j \in 1..Len(ul_log) :
                ul_log[j] = [file |-> ul_from[i].name, outcome |-> "collected",
                             is_valid |-> TRUE]
    /\ ul_pc = "done" =>
          IF Len(ul_valid) < ul_manifest.threshold
          THEN ul_result = [kind |-> "insufficient"]
          ELSE ul_result.kind \in {"written", "error"}

C24_Witness ==
    /\ ul_pc = "done" /\ ul_manifest.threshold = 2
    /\ ul_result.kind = "written" /\ ul_result.img = UnlockSecret
    /\ Len(ul_valid) = 2

-----------------------------------------------------------------------------
(***************************************************************************)
(* The precision of the CRT accumulation: the three reconstruction paths   *)
(* on the default moduli and on moduli wide enough that residue * weight   *)
(* passes 2^63.                                                            *)
(***************************************************************************)
WideModuli == <<400009, 400013, 400031>>

WideInputs == { <<N_PARTICIPANTS, T_THRESHOLD, MODULI>>, <<3, 3, WideModuli>> }

ConstructWide == ConstructWith(WideInputs)

\* batch_crt_solve(shares, moduli, m0) on the data and moduli of any shares of
\* the split, with m0 = LARGE_PRIME_Q
BatchCrtSolve ==
    /\ shares.kind = "payload" /\ rec_out.kind = "none"
    /\ \E k \in 0..MaxShares : \E sel \in InjSeqs(1..Len(shares.list), k) :
          /\ rec_in' = sel
          /\ rec_out' = batch_crt_solve([i \in 1..k |-> shares.list[sel[i]].data],
                                        [i \in 1..k |-> shares.list[sel[i]].modulus],
                                        LARGE_PRIME_Q)
    /\ UNCHANGED <<sp_state, sp_n, sp_t, sp_moduli, image, shares>>

SpecCRTWideNext ==
    \/ ConstructWide /\ UNCHANGED <<genVars, arVars, rqVars, latVars>>
    \/ Split /\ UNCHANGED <<genVars, arVars, rqVars, latVars>>
    \/ SplitImage /\ UNCHANGED <<genVars, arVars, rqVars, latVars>>
    \/ Reconstruct /\ UNCHANGED <<genVars, arVars, rqVars, latVars>>
    \/ ReconstructImage /\ UNCHANGED <<genVars, arVars, rqVars, latVars>>
    \/ BatchCrtSolve /\ UNCHANGED <<genVars, arVars, rqVars, latVars>>

\* split, split_image and the three reconstruction paths
SpecCRTWide == SpecCRTInit /\ [][SpecCRTWideNext]_vars

\* the shares a finished reconstruction combined
CombinedShares ==
    IF shares.kind = "payload" THEN [i \in 1..Len(rec_in) |-> shares.list[rec_in[i]]]
    ELSE LET loaded_shares == LoadShares(shares.list, rec_in, 1)
         IN  Slice(loaded_shares, 1, IF Len(loaded_shares) < T_THRESHOLD
                                     THEN Len(loaded_shares) ELSE T_THRESHOLD)

\* the exact integer (sum of residue_i * weight_i) mod M at pixel position k
ExactY(sel, k) ==
    LET moduli  == [i \in 1..Len(sel) |-> sel[i].modulus]
        M       == BigProd(moduli)
        weights == Eval([i \in 1..Len(sel) |-> Weight(M, moduli[i])])
    IN  BigMod(CrtSum([i \in 1..Len(sel) |-> sel[i].data], weights, k, 1), M)

\* C25: in every reconstruction path (reconstruct, reconstruct_image,
\* batch_crt_solve) and for any pairwise-coprime share moduli, the computed Y is
\* the exact integer (sum of residue_i * weight_i) mod M: no intermediate wraps
\* around at a fixed width.
C25_ExactAccumulation ==
    (rec_out.kind = "image"
     /\ PairwiseCoprime([i \in 1..Len(CombinedShares) |-> CombinedShares[i].modulus]))
        => \A k \in 1..Len(rec_out.Y) : rec_out.Y[k] = ExactY(CombinedShares, k)

-----------------------------------------------------------------------------
(***************************************************************************)
(* One party's signer as a state machine, and the caller's retry loop      *)
(* (tests/test_signature_verification.py): every attempt creates the       *)
(* ThresholdSigner objects anew and commits them; a rejected response      *)
(* ends the attempt.  phase2_response is a public method, so it is called  *)
(* at any time: before the commitment, and again after it has answered     *)
(* (test/test_lattice_system.py calls it in a loop).                       *)
(***************************************************************************)
MaxAttempts == 2

\* the states numpy's global generator may be in when the process starts
PartyEntropy == { [seed |-> 49999 + d, pos |-> N] : d \in 0..1 }

InitParty ==
    /\ th_pc = "init"
    /\ th_plan \in ThresholdPlans
    /\ th_system = [kind |-> "none"]
    /\ th_signers = << >>
    /\ th_ts = Timestamp(0)
    /\ th_msg = << >> /\ th_W = "None" /\ th_resp = << >>
    /\ th_Z = [kind |-> "none"] /\ th_c = << >> /\ th_ver = [kind |-> "none"]
    /\ np_state \in PartyEntropy
    /\ rt_attempt = 1 /\ rt_log = << >>

\* the entry of rt_log for a call of signer.phase2_response(W_sum, message)
CallRecord(signer, W_sum, message, out) ==
    [attempt |-> rt_attempt, index |-> signer.index, y |-> signer.y,
     msg |-> message, W |-> W_sum,
     out |-> IF out = "ValueError" THEN "ValueError"
             ELSE IF out = "None" THEN "None" ELSE "z_share"]

CallsOf(signer) ==
    {j \in 1..Len(rt_log) :
        rt_log[j].attempt = rt_attempt /\ rt_log[j].index = signer.index}

\* the session's phase2_response call of the next signer
PartyResponse ==
    /\ Phase2Response
    /\ rt_log' = Append(rt_log, CallRecord(th_signers[Len(th_resp) + 1], th_W, th_msg,
                                           th_resp'[Len(th_resp')]))
    /\ UNCHANGED rt_attempt

\* phase2_response on a signer that has not run phase1_commitment
Phase2Uncommitted ==
    /\ th_pc = "keys"
    /\ \E i \in 1..Len(th_signers) :
           /\ ~Committed(th_signers[i])
           /\ CallsOf(th_signers[i]) = {}
           /\ rt_log' = Append(rt_log,
                  CallRecord(th_signers[i], th_W, Message(0),
                             phase2_response(th_signers[i], th_W, Message(0))))
    /\ UNCHANGED <<thVars, np_state, rt_attempt>>

\* phase2_response once more on a signer that has answered, for any message
Phase2Again ==
    /\ th_pc = "committed"
    /\ \E i \in 1..Len(th_resp) : \E m \in 0..MaxMsg :
           /\ \A j \in CallsOf(th_signers[i]) : rt_log[j].out /= "ValueError"
           /\ Cardinality(CallsOf(th_signers[i])) = 1
           /\ rt_log' = Append(rt_log,
                  CallRecord(th_signers[i], th_W, Message(m),
                             phase2_response(th_signers[i], th_W, Message(m))))
    /\ UNCHANGED <<thVars, np_state, rt_attempt>>

\* the retry loop: a response was None, so the next attempt starts with new
\* ThresholdSigner objects for the same keys, message and timestamp
Restart ==
    /\ th_pc = "committed"
    /\ Len(th_resp) = Len(th_signers)
    /\ \E i \in 1..Len(th_resp) : th_resp[i] = "None"
    /\ rt_attempt < MaxAttempts
    /\ rt_attempt' = rt_attempt + 1
    /\ th_pc' = "keys"
    /\ th_signers' = << >> /\ th_resp' = << >> /\ th_W' = "None" /\ th_c' = << >>
    /\ UNCHANGED <<th_plan, th_system, th_ts, th_msg, th_Z, th_ver, np_state, rt_log>>

SpecPartyInit == InitParty /\ IdleNotParty

SpecPartyNext ==
    \/ ThresholdSetup /\ UNCHANGED <<notParty, rtVars>>
    \/ NewSigner /\ UNCHANGED <<notParty, rtVars>>
    \/ Phase1Commitment /\ UNCHANGED <<notParty, rtVars>>
    \/ AggregateCommitments /\ (rt_attempt > 1 => th_msg' = th_msg)
          /\ UNCHANGED <<notParty, rtVars>>
    \/ PartyResponse /\ UNCHANGED notParty
    \/ Phase2Uncommitted /\ UNCHANGED notParty
    \/ Phase2Again /\ UNCHANGED notParty
    \/ Restart /\ UNCHANGED notParty

SpecParty == SpecPartyInit /\ [][SpecPartyNext]_vars

\* C26: a party's signer goes Init -> Committed -> {Accepted | Rejected}:
\* phase2_response raises ValueError on a signer that has not committed, and a
\* commitment is answered at most once: after the first outcome y is discarded,
\* so a further phase2_response call on that signer gives no outcome, and one y
\* never answers two different challenges.
C26_PartyStateMachine ==
    /\ \A j \in 1..Len(rt_log) : rt_log[j].y = "None" <=> rt_log[j].out = "ValueError"
    /\ \A a, b \in 1..Len(rt_log) :
           (a < b /\ rt_log[a].attempt = rt_log[b].attempt
                  /\ rt_log[a].index = rt_log[b].index
                  /\ rt_log[a].y = rt_log[b].y /\ rt_log[a].y /= "None")
               => /\ rt_log[b].msg = rt_log[a].msg
                  /\ rt_log[b].W = rt_log[a].W
                  /\ rt_log[b].out = "ValueError"

\* the y a signer draws when it commits right after ThresholdSigner(sk, index)
\* reseeded the generator from rho
MaskOfRho(rho) ==
    DrawVec(expand_a([seed |-> 0, pos |-> 0], rho).st, L, -(GAMMA1 \div 8), GAMMA1 \div 8 + 1).val

\* C27: a restart after rejection uses a fresh masking vector: the y a signer
\* answers with in a later attempt is not the y of an earlier attempt, and it is
\* not the value anyone computes from the public seed rho.
C27_FreshMaskOnRetry ==
    /\ \A a, b \in 1..Len(rt_log) :
           (rt_log[a].attempt < rt_log[b].attempt /\ rt_log[a].index = rt_log[b].index
            /\ rt_log[a].y /= "None" /\ rt_log[b].y /= "None")
               => rt_log[a].y /= rt_log[b].y
    /\ \A b \in 1..Len(rt_log) :
           (rt_log[b].attempt > 1 /\ rt_log[b].y /= "None" /\ Len(th_system.party_keys) = 1)
               => rt_log[b].y /= MaskOfRho(th_plan.rho)

-----------------------------------------------------------------------------
(***************************************************************************)
(* The lock flow (dealer/locker.py): lock_and_distribute checks the keys,  *)
(* generates the moduli, splits the secret image and anchors the shares    *)
(* one by one (serialize, fingerprint, embed, manifest entry).             *)
(***************************************************************************)
MaxPks == 3         \* the most .pk files and cover images in the directories

\* generate_secure_moduli(n, t) from current_start, within the rounds followed
RECURSIVE GenerateFrom(_, _, _, _)
GenerateFrom(start, n, t, rounds) ==
    IF rounds = 0 THEN [kind |-> "loop"]
    ELSE LET moduli == GreedyCollect(<< >>, start, start, n)
         IN  IF Len(moduli) < n THEN GenerateFrom(start + STEP_SHORT, n, t, rounds - 1)
             ELSE IF SecurityCheck(SortAsc(moduli), t, PIXEL_MAX)
             THEN [kind |-> "moduli", list |-> SortAsc(moduli)]
             ELSE GenerateFrom(start + STEP_FAIL, n, t, rounds - 1)

generate_secure_moduli(n, t) == GenerateFrom(SEARCH_START, n, t, MaxRounds)

\* the calls tried: lock_and_distribute(secret, pk_dir, cover_dir, output_dir, n, t)
\* with pks .pk files in pk_dir and covers images in cover_dir
LockPlans ==
    { [secret |-> img, n |-> n, t |-> t, pks |-> pks, covers |-> covers] :
        img \in FileImages, n \in 2..3, t \in 2..3, pks \in 2..MaxPks, covers \in 2..MaxPks }

InitLock ==
    /\ lk_pc = "init"
    /\ lk_plan \in LockPlans
    /\ lk_moduli = << >> /\ lk_shares = << >> /\ lk_anchor = << >>

\* steps 1 and 2: the public keys are counted and the moduli generated
LockCollect ==
    /\ lk_pc = "init"
    /\ IF lk_plan.pks < lk_plan.n \/ lk_plan.n < lk_plan.t
       THEN lk_pc' = "ValueError" /\ UNCHANGED lk_moduli
       ELSE \E r \in {generate_secure_moduli(lk_plan.n, lk_plan.t)} :
                /\ r.kind = "moduli"
                /\ lk_moduli' = r.list
                /\ lk_pc' = "params"
    /\ UNCHANGED <<lk_plan, lk_shares, lk_anchor>>

\* step 3: ImageCRTSplitter(n, t, moduli) and splitter.split(img_arr), then the
\* count of the cover images
LockSplit ==
    /\ lk_pc = "params"
    /\ IF ~_validate_moduli(lk_plan.n, SortAsc(lk_moduli))
       THEN lk_pc' = "ValueError" /\ UNCHANGED lk_shares
       ELSE /\ lk_shares' = split(lk_plan.secret, SortAsc(lk_moduli))
            /\ lk_pc' = IF lk_plan.covers < lk_plan.n THEN "ValueError" ELSE "loop"
    /\ UNCHANGED <<lk_plan, lk_moduli, lk_anchor>>

\* one pass of the loop of step 4: share.to_bytes(), its SHA-256 fingerprint,
\* and self.embedder.embed(cover_path, share_bytes).  cover_path is the path
\* string of the cover, so embed raises at carrier_image.shape and the pass
\* ends the call.
LockAnchor ==
    /\ lk_pc = "loop"
    /\ Len(lk_anchor) < lk_plan.n
    /\ \E share \in {lk_shares[Len(lk_anchor) + 1]} :
       \E share_bytes \in {to_bytes(share)} :
           lk_anchor' = Append(lk_anchor,
               [share |-> share, share_bytes |-> share_bytes,
                share_hash |-> hexdigest(share_bytes),
                stego |-> [kind |-> "AttributeError"]])
    /\ lk_pc' = "AttributeError"
    /\ UNCHANGED <<lk_plan, lk_moduli, lk_shares>>

SpecLockInit == InitLock /\ IdleNotLock

SpecLockNext ==
    \/ LockCollect /\ UNCHANGED notLock
    \/ LockSplit /\ UNCHANGED notLock
    \/ LockAnchor /\ UNCHANGED notLock

SpecLock == SpecLockInit /\ [][SpecLockNext]_vars

\* the residues of the scrambled secret image for the modulus of a share
ScrambledResidues(secret, modulus) ==
    LET scr == scramble(secret, 1, 1, SCRAMBLER_ITERATIONS).img
    IN  [k \in 1..Len(scr.px) |-> Shadow(scr.px[k], modulus)]

\* C28: in a lock operation the secret image is scrambled before it is split:
\* every share that is serialized and fingerprinted for embedding holds the
\* residues of the scrambled image.
C28_ScrambleBeforeSplit ==
    \A i \in 1..Len(lk_anchor) :
        lk_anchor[i].share.data = ScrambledResidues(lk_plan.secret, lk_anchor[i].share.modulus)

-----------------------------------------------------------------------------
(***************************************************************************)
(* One process that signs, verifies and signs again, as the loop of        *)
(* unlock_asset.main does for every share (sign, verify, next share).      *)
(***************************************************************************)
InitSignLoop ==
    /\ ls_pc = "init"
    /\ ls_seed \in SignerSeeds
    /\ ls_keys = [kind |-> "none"]
    /\ ls_msg = << >>
    /\ ls_sig = [kind |-> "none"]
    /\ ls_ver = [kind |-> "none"]
    /\ np_state \in PartyEntropy
    /\ sq_seen = << >>

\* signer.sign(sk, msg) once more, after a sign or after the verify call of the
\* signature just made
SignAgain ==
    /\ \/ ls_pc = "signed"
       \/ ls_pc = "verified" /\ ls_ver.change = "none" /\ ls_ver.message = ls_msg
    /\ sq_seen' = Append(sq_seen, ls_sig.signature.c_hash)
    /\ \E m \in 0..MaxMsg :
       \E r \in {sign(np_state, ls_keys.sk, Message(m))} :
           /\ ls_msg' = Message(m)
           /\ ls_sig' = [kind |-> "signature", signature |-> r.signature, y |-> r.y]
           /\ np_state' = r.st
    /\ ls_pc' = "resigned"
    /\ UNCHANGED <<ls_seed, ls_keys, ls_ver>>

SpecSignLoopInit == InitSignLoop /\ IdleNotSignLoop

SpecSignLoopNext ==
    \/ SignerKeypair /\ UNCHANGED <<notSignLoop, sqVars>>
    \/ Sign /\ UNCHANGED <<notSignLoop, sqVars>>
    \/ Verify /\ UNCHANGED <<notSignLoop, sqVars>>
    \/ SignAgain /\ UNCHANGED notSignLoop

SpecSignLoop == SpecSignLoopInit /\ [][SpecSignLoopNext]_vars

\* bytes.fromhex of a hex digest
fromhex(digits) == [i \in 1..(Len(digits) \div 2) |-> 16 * digits[2 * i - 1] + digits[2 * i]]

\* the y that sign draws when the generator was last seeded by _hash_to_poly
\* for the digest c_hash
MaskOfHash(c_hash) ==
    DrawVec(hash_to_poly(fromhex(c_hash), N).st, L, -GAMMA1, GAMMA1).val

\* C30: the masking vector y of a signature is independent of what was
\* published before it: it is not the value anyone computes from the c_hash of
\* an earlier signature of the process.
C30_MaskIndependentOfPublished ==
    ls_pc = "resigned" =>
        \A j \in 1..Len(sq_seen) : ls_sig.y /= MaskOfHash(sq_seen[j])

=============================================================================
